---- MODULE Spec2Model ----
(***************************************************************************)
(* Tembo page creation: ScopedPageCreator.create_page and                  *)
(* ScopedPage.save_to_disk (src/tembo/journal/pages.py).                    *)
(*                                                                         *)
(* A str is a sequence of one-character strings, a pathlib.Path is a       *)
(* record [root, parts], the filesystem is a function from normalised      *)
(* absolute path strings to directory / file entries.                      *)
(***************************************************************************)
EXTENDS Integers, Sequences, FiniteSets, TLC

----------------------------------------------------------------------------
(* Bounds of the model *)

\* largest number of values in user_input
MaxInputs == 2
\* largest number of create_page calls on the creator
MaxCreates == 2
\* largest number of save_to_disk calls on the pages
MaxSaves == 2
\* the clock reads 0..MaxClock (days after the first of the month)
MaxClock == 1

----------------------------------------------------------------------------
(* str *)

Digits == {"0", "1", "2", "3", "4", "5", "6", "7", "8", "9"}

\* the code points of the characters the model uses (Python compares str by code point)
CodePoint ==
    [c \in {" ", "%", "-", ".", "/", ":", "_", "{", "}", "~", "\n"} \cup Digits
           \cup {"a", "b", "c", "d", "e", "h", "i", "l", "m", "n", "p", "q", "s",
                 "t", "u", "v", "w", "x"} |->
        CASE c = "\n" -> 10 [] c = " " -> 32 [] c = "%" -> 37 [] c = "-" -> 45
          [] c = "." -> 46 [] c = "/" -> 47
          [] c = "0" -> 48 [] c = "1" -> 49 [] c = "2" -> 50 [] c = "3" -> 51
          [] c = "4" -> 52 [] c = "5" -> 53 [] c = "6" -> 54 [] c = "7" -> 55
          [] c = "8" -> 56 [] c = "9" -> 57 [] c = ":" -> 58 [] c = "_" -> 95
          [] c = "a" -> 97 [] c = "b" -> 98 [] c = "c" -> 99 [] c = "d" -> 100
          [] c = "e" -> 101 [] c = "h" -> 104 [] c = "i" -> 105 [] c = "l" -> 108
          [] c = "m" -> 109 [] c = "n" -> 110 [] c = "p" -> 112 [] c = "q" -> 113
          [] c = "s" -> 115 [] c = "t" -> 116 [] c = "u" -> 117 [] c = "v" -> 118
          [] c = "w" -> 119 [] c = "x" -> 120
          [] c = "{" -> 123 [] c = "}" -> 125 [] c = "~" -> 126]

\* a comparison that puts the shorter str first, as a sort by token number would
StrLessShorterFirst(a, b) ==
    \/ Len(a) < Len(b)
    \/ /\ Len(a) = Len(b)
       /\ \E i \in 1..Len(b) :
              /\ \A j \in 1..(i - 1) : a[j] = b[j]
              /\ CodePoint[a[i]] < CodePoint[b[i]]

\* a < b for two str, as Python's sorted() compares them
StrLess(a, b) ==
    \E i \in 1..Len(b) :
        /\ \A j \in 1..(i - 1) : j <= Len(a) /\ a[j] = b[j]
        /\ \/ i > Len(a)
           \/ CodePoint[a[i]] < CodePoint[b[i]]

\* s[i:].startswith(pat)
StartsWithAt(s, i, pat) ==
    /\ i + Len(pat) - 1 <= Len(s)
    /\ \A k \in 1..Len(pat) : s[i + k - 1] = pat[k]

\* the index of the first occurrence of old at or after i, 0 if there is none
FindFrom(s, old, i) ==
    IF \E k \in i..Len(s) : StartsWithAt(s, k, old)
    THEN CHOOSE k \in i..Len(s) :
             StartsWithAt(s, k, old) /\ \A j \in i..(k - 1) : ~StartsWithAt(s, j, old)
    ELSE 0

RECURSIVE ReplaceFrom(_, _, _, _)
ReplaceFrom(s, old, new, i) ==
    LET k == FindFrom(s, old, i)
    IN  IF k = 0 THEN SubSeq(s, i, Len(s))
        ELSE SubSeq(s, i, k - 1) \o new \o ReplaceFrom(s, old, new, k + Len(old))

\* s.replace(old, new) for a non-empty old: every non-overlapping occurrence, left to right
Replace(s, old, new) == ReplaceFrom(s, old, new, 1)

\* the index of the first sep at or after i, Len(s) + 1 if there is none
NextSep(s, sep, i) ==
    IF \E k \in i..Len(s) : s[k] = sep
    THEN CHOOSE k \in i..Len(s) : s[k] = sep /\ \A j \in i..(k - 1) : s[j] # sep
    ELSE Len(s) + 1

RECURSIVE SplitFrom(_, _, _)
SplitFrom(s, sep, i) ==
    LET k == NextSep(s, sep, i)
    IN  IF k > Len(s) THEN <<SubSeq(s, i, Len(s))>>
        ELSE <<SubSeq(s, i, k - 1)>> \o SplitFrom(s, sep, k + 1)

\* s.split(sep) for a one-character sep
Split(s, sep) == SplitFrom(s, sep, 1)

RECURSIVE Join(_, _)
\* sep.join(parts)
Join(parts, sep) ==
    IF parts = <<>> THEN <<>>
    ELSE IF Len(parts) = 1 THEN parts[1]
         ELSE parts[1] \o sep \o Join(Tail(parts), sep)

\* an absent (None) or present optional value
None == [some |-> FALSE]
Some(v) == [some |-> TRUE, val |-> v]

----------------------------------------------------------------------------
(* re.findall of the three token patterns *)

RECURSIVE DigitsEnd(_, _)
\* the first index at or after i that does not hold a digit (\d* is greedy)
DigitsEnd(s, i) ==
    IF i <= Len(s) /\ s[i] \in Digits THEN DigitsEnd(s, i + 1) ELSE i

RECURSIVE BraceAt(_, _)
\* the first index at or after i that holds a closing brace, 0 if there is none ([^}]*)
BraceAt(s, i) ==
    IF i > Len(s) THEN 0
    ELSE IF s[i] = "}" THEN i ELSE BraceAt(s, i + 1)

\* length of the match of \{input\d*\} at index i, 0 if it does not match there
MatchInput(s, i) ==
    IF StartsWithAt(s, i, <<"{", "i", "n", "p", "u", "t">>)
    THEN LET e == DigitsEnd(s, i + 6)
         IN  IF e <= Len(s) /\ s[e] = "}" THEN e - i + 1 ELSE 0
    ELSE 0

\* length of the match of \{name\} at index i, 0 if it does not match there
MatchName(s, i) ==
    IF StartsWithAt(s, i, <<"{", "n", "a", "m", "e", "}">>) THEN 6 ELSE 0

\* length of the match of \{d\:[^}]*\} at index i, 0 if it does not match there
MatchDate(s, i) ==
    IF StartsWithAt(s, i, <<"{", "d", ":">>)
    THEN LET e == BraceAt(s, i + 3)
         IN  IF e > 0 THEN e - i + 1 ELSE 0
    ELSE 0

MatchLen(kind, s, i) ==
    CASE kind = "input" -> MatchInput(s, i)
      [] kind = "name" -> MatchName(s, i)
      [] kind = "date" -> MatchDate(s, i)

\* the index of the first match at or after i, 0 if there is none
SearchFrom(kind, s, i) ==
    IF \E k \in i..Len(s) : MatchLen(kind, s, k) > 0
    THEN CHOOSE k \in i..Len(s) :
             MatchLen(kind, s, k) > 0 /\ \A j \in i..(k - 1) : MatchLen(kind, s, j) = 0
    ELSE 0

RECURSIVE FindAllFrom(_, _, _)
FindAllFrom(kind, s, i) ==
    LET k == SearchFrom(kind, s, i)
    IN  IF k = 0 THEN <<>>
        ELSE <<SubSeq(s, k, k + MatchLen(kind, s, k) - 1)>>
                 \o FindAllFrom(kind, s, k + MatchLen(kind, s, k))

\* re.findall(pattern, s): the non-overlapping matches, left to right
FindAll(kind, s) == FindAllFrom(kind, s, 1)

\* set(list)
ToSet(seq) == {seq[i] : i \in 1..Len(seq)}

RECURSIVE Sorted(_)
\* sorted(list(set)): ascending in Python's str order
Sorted(S) ==
    IF S = {} THEN <<>>
    ELSE LET m == CHOOSE x \in S : \A y \in S \ {x} : StrLess(x, y)
         IN  <<m>> \o Sorted(S \ {m})

----------------------------------------------------------------------------
(* pathlib.PurePosixPath *)

\* Path(s): empty and "." components are dropped, a leading "/" is the root
Path(s) ==
    [root  |-> s # <<>> /\ s[1] = "/",
     parts |-> SelectSeq(Split(s, "/"), LAMBDA c : c # <<>> /\ c # <<".">>)]

\* p / q, and Path(p, q): an absolute q replaces p
PathJoin(p, q) ==
    IF q.root THEN q ELSE [root |-> p.root, parts |-> p.parts \o q.parts]

\* str(path)
PathStr(p) ==
    IF p.parts = <<>> THEN (IF p.root THEN <<"/">> ELSE <<".">>)
    ELSE (IF p.root THEN <<"/">> ELSE <<>>) \o Join(p.parts, <<"/">>)

\* the home directory of the user running the program
HomeDir == <<"/", "h">>

\* path.expanduser(): a leading "~" component becomes the home directory
ExpandUser(p) ==
    IF ~p.root /\ p.parts # <<>> /\ p.parts[1] = <<"~">>
    THEN PathJoin(Path(HomeDir), [root |-> FALSE, parts |-> Tail(p.parts)])
    ELSE p

\* name.rfind(c) as a 1-based index at or below i, 0 if c does not occur
RFind(name, c, i) ==
    IF \E k \in 1..i : name[k] = c
    THEN CHOOSE k \in 1..i : name[k] = c /\ \A j \in (k + 1)..i : name[j] # c
    ELSE 0

\* path.suffix of a file name: from the last dot, unless that dot is first or last
Suffix(name) ==
    LET i == RFind(name, ".", Len(name))
    IN  IF 1 < i /\ i < Len(name) THEN SubSeq(name, i, Len(name)) ELSE <<>>

\* an exception raised by the standard library, passed through by create_page
Raised(kind) == [exc |-> kind]
IsRaised(x) == "exc" \in DOMAIN x

\* path.with_suffix(suffix): ValueError for an empty name and for an invalid suffix
WithSuffix(p, suffix) ==
    IF p.parts = <<>> THEN Raised("ValueError")
    ELSE IF \/ \E i \in 1..Len(suffix) : suffix[i] = "/"
            \/ (suffix # <<>> /\ suffix[1] # ".")
            \/ suffix = <<".">>
         THEN Raised("ValueError")
         ELSE LET name == p.parts[Len(p.parts)]
                  stem == SubSeq(name, 1, Len(name) - Len(Suffix(name)))
              IN  [root  |-> p.root,
                   parts |-> SubSeq(p.parts, 1, Len(p.parts) - 1) \o <<stem \o suffix>>]

\* path.parents[0] of a path with at least one component
Parent(p) == [root |-> p.root, parts |-> SubSeq(p.parts, 1, Len(p.parts) - 1)]

----------------------------------------------------------------------------
(* The filesystem, the template renderer and the clock *)

Dir == [kind |-> "dir"]
File(content) == [kind |-> "file", content |-> content]

\* pathlib.Path.exists()
Exists(files, p) == PathStr(p) \in DOMAIN files

IsFile(files, p) == Exists(files, p) /\ files[PathStr(p)].kind = "file"

\* p and all its ancestors up to the root
Lineage(p) ==
    {[root |-> p.root, parts |-> SubSeq(p.parts, 1, k)] : k \in 0..Len(p.parts)}

\* p.mkdir(parents=True, exist_ok=True): the missing directories of p's lineage are
\* created ([made |-> the filesystem after]); an entry of the lineage that is a file
\* makes it raise and create nothing
Mkdir(files, p) ==
    IF IsFile(files, p) THEN Raised("FileExistsError")
    ELSE IF \E a \in Lineage(p) : IsFile(files, a) THEN Raised("NotADirectoryError")
    ELSE [made |-> [q \in DOMAIN files \cup {PathStr(a) : a \in Lineage(p)} |->
                       IF q \in DOMAIN files THEN files[q] ELSE Dir]]

\* open(p, "w") with nothing written: the file is created or truncated
WriteNothing(files, p, content) ==
    [q \in DOMAIN files \cup {PathStr(p)} |->
        IF q = PathStr(p) THEN File(<<>>) ELSE files[q]]

\* open(p, "w").write(content): the file is created or truncated, then written
WriteText(files, p, content) ==
    [q \in DOMAIN files \cup {PathStr(p)} |->
        IF q = PathStr(p) THEN File(content) ELSE files[q]]

\* jinja2 renders a template without expressions to its text less one trailing newline
Render(source) ==
    IF source # <<>> /\ source[Len(source)] = "\n"
    THEN SubSeq(source, 1, Len(source) - 1)
    ELSE source

\* jinja2 cannot compile a source that opens a block tag and never closes it:
\* env.get_template raises TemplateSyntaxError
RenderFails(source) ==
    /\ \E i \in 1..Len(source) : StartsWithAt(source, i, <<"{", "%">>)
    /\ ~\E i \in 1..Len(source) : StartsWithAt(source, i, <<"%", "}">>)

\* two decimal digits
TwoDigits(n) ==
    LET digit == <<"0", "1", "2", "3", "4", "5", "6", "7", "8", "9">>
    IN  <<digit[(n \div 10) + 1], digit[(n % 10) + 1]>>

RECURSIVE StrFTimeFrom(_, _, _)
StrFTimeFrom(format, t, i) ==
    IF i > Len(format) THEN <<>>
    ELSE IF StartsWithAt(format, i, <<"%", "d">>)
         THEN TwoDigits(t + 1) \o StrFTimeFrom(format, t, i + 2)
         ELSE <<format[i]>> \o StrFTimeFrom(format, t, i + 1)

\* pendulum.now().strftime(format) at clock reading t: %d is the day of the month,
\* every other character of the formats used here stands for itself
StrFTime(format, t) == StrFTimeFrom(format, t, 1)

\* the readings of n successive pendulum.now() calls from clock reading t on
ClockReads(t, n) ==
    {r \in [1..n -> t..MaxClock] : \A i \in 1..(n - 1) : r[i] <= r[i + 1]}

----------------------------------------------------------------------------
(* Exceptions and results *)

\* an f-string with one replacement field
FString(template, arg) == [template |-> template, arg |-> arg]

BasePathDoesNotExistError(message) ==
    [exc |-> "BasePathDoesNotExistError", message |-> message]

TemplateFileNotFoundError(message) ==
    [exc |-> "TemplateFileNotFoundError", message |-> message]

MismatchedTokenError(expected, given) ==
    [exc |-> "MismatchedTokenError", expected |-> expected, given |-> given]

ScopedPageAlreadyExists(message) ==
    [exc |-> "ScopedPageAlreadyExists", message |-> message]

\* tembo.utils.Success
Success(message) == [success |-> TRUE, message |-> message]

\* a ScopedPage object
ScopedPage(path, page_content) == [path |-> path, page_content |-> page_content]

\* a method that returned without a value
Returned == [returned |-> TRUE]

\* no call has ended yet
NoResult == [pending |-> TRUE]

----------------------------------------------------------------------------
(* PageCreator and ScopedPageCreator methods *)

\* _check_base_path_exists that looks at the directory holding the base path
CheckBasePathExistsOfParent(files, o) ==
    IF ~Exists(files, Parent(ExpandUser(Path(o.base_path))))
    THEN BasePathDoesNotExistError(
             FString("Tembo base path of {base_path} does not exist.", o.base_path))
    ELSE Returned

\* PageCreator._check_base_path_exists
CheckBasePathExists(files, o) ==
    IF ~Exists(files, ExpandUser(Path(o.base_path)))
    THEN BasePathDoesNotExistError(
             FString("Tembo base path of {base_path} does not exist.", o.base_path))
    ELSE Returned

\* the template directory when template_path is not looked at
ConvertedTemplatePathOfBase(o) ==
    PathJoin(ExpandUser(Path(o.base_path)),
             Path(<<".", "t", "e", "m", "p", "l", "a", "t", "e", "s">>))

\* the directory the template is looked up in
ConvertedTemplatePath(o) ==
    IF o.template_path.some
    THEN ExpandUser(Path(o.template_path.val))
    ELSE PathJoin(ExpandUser(Path(o.base_path)),
                  Path(<<".", "t", "e", "m", "p", "l", "a", "t", "e", "s">>))

\* PageCreator._load_template: [text |-> rendered template] or the exception raised
LoadTemplate(files, o) ==
    IF ~o.template_filename.some THEN [text |-> <<>>]
    ELSE LET converted_template_path == ConvertedTemplatePath(o)
             template_file ==
                 PathJoin(converted_template_path, Path(o.template_filename.val))
         IN  IF IsFile(files, template_file)
             THEN IF RenderFails(files[PathStr(template_file)].content)
                  THEN Raised("TemplateSyntaxError")
                  ELSE [text |-> Render(files[PathStr(template_file)].content)]
             ELSE TemplateFileNotFoundError(
                      FString("Template file {_template_file} does not exist.",
                              PathStr(converted_template_path) \o <<"/">>
                                  \o o.template_filename.val))

\* _convert_base_path_to_path that takes the extension as it is written
ConvertBasePathToPathKeepingDot(o) ==
    LET path_to_file ==
            PathJoin(PathJoin(ExpandUser(Path(o.base_path)),
                              ExpandUser(Path(Replace(o.page_path, <<" ">>, <<"_">>)))),
                     Path(Replace(o.filename, <<" ">>, <<"_">>)))
    IN  IF o.extension = <<>> THEN Raised("IndexError")
        ELSE WithSuffix(path_to_file, <<".">> \o o.extension)

\* _convert_base_path_to_path that takes page_path as it is written
ConvertBasePathToPathKeepingSpaces(o) ==
    LET path_to_file ==
            PathJoin(PathJoin(ExpandUser(Path(o.base_path)),
                              ExpandUser(Path(o.page_path))),
                     Path(Replace(o.filename, <<" ">>, <<"_">>)))
    IN  IF o.extension = <<>> THEN Raised("IndexError")
        ELSE LET extension ==
                     IF o.extension[1] = "." THEN Tail(o.extension) ELSE o.extension
             IN  WithSuffix(path_to_file, <<".">> \o extension)

\* PageCreator._convert_base_path_to_path: a Path, or the exception raised
ConvertBasePathToPath(o) ==
    LET path_to_file ==
            PathJoin(PathJoin(ExpandUser(Path(o.base_path)),
                              ExpandUser(Path(Replace(o.page_path, <<" ">>, <<"_">>)))),
                     Path(Replace(o.filename, <<" ">>, <<"_">>)))
    IN  IF o.extension = <<>> THEN Raised("IndexError")
        ELSE LET extension ==
                     IF o.extension[1] = "." THEN Tail(o.extension) ELSE o.extension
             IN  WithSuffix(path_to_file, <<".">> \o extension)

RECURSIVE FirstOccurrences(_, _)
\* the list without the repetitions of its elements, in order of first appearance
FirstOccurrences(seq, i) ==
    IF i > Len(seq) THEN <<>>
    ELSE IF \E j \in 1..(i - 1) : seq[j] = seq[i]
         THEN FirstOccurrences(seq, i + 1)
         ELSE <<seq[i]>> \o FirstOccurrences(seq, i + 1)

\* _get_input_tokens that keeps the tokens in their order of appearance
GetInputTokensInTextOrder(files, o) ==
    LET path == WithSuffix(
                    ExpandUser(PathJoin(PathJoin(Path(o.base_path), Path(o.page_path)),
                                        Path(o.filename))),
                    <<".">> \o o.extension)
    IN  IF IsRaised(path) THEN path
        ELSE LET template_contents == LoadTemplate(files, o)
             IN  IF IsRaised(template_contents) THEN template_contents
                 ELSE [tokens |->
                          FirstOccurrences(FindAll("input", PathStr(path))
                                           \o FindAll("input", template_contents.text),
                                           1)]

\* _get_input_tokens that scans the path only
GetInputTokensOfPath(files, o) ==
    LET path == WithSuffix(
                    ExpandUser(PathJoin(PathJoin(Path(o.base_path), Path(o.page_path)),
                                        Path(o.filename))),
                    <<".">> \o o.extension)
    IN  IF IsRaised(path) THEN path
        ELSE LET template_contents == LoadTemplate(files, o)
             IN  IF IsRaised(template_contents) THEN template_contents
                 ELSE [tokens |-> Sorted(ToSet(FindAll("input", PathStr(path))))]

\* _get_input_tokens that reads an absent template as an empty one, leaving the
\* failure to the _load_template call of create_page
GetInputTokensDeferringTemplate(files, o) ==
    LET path == WithSuffix(
                    ExpandUser(PathJoin(PathJoin(Path(o.base_path), Path(o.page_path)),
                                        Path(o.filename))),
                    <<".">> \o o.extension)
    IN  IF IsRaised(path) THEN path
        ELSE LET template_contents == LoadTemplate(files, o)
                 text == IF IsRaised(template_contents) THEN <<>>
                         ELSE template_contents.text
             IN  [tokens |->
                     Sorted(ToSet(FindAll("input", PathStr(path))
                                  \o FindAll("input", text)))]

\* ScopedPageCreator._get_input_tokens: [tokens |-> sorted list] or the exception raised
GetInputTokens(files, o) ==
    LET path == WithSuffix(
                    ExpandUser(PathJoin(PathJoin(Path(o.base_path), Path(o.page_path)),
                                        Path(o.filename))),
                    <<".">> \o o.extension)
    IN  IF IsRaised(path) THEN path
        ELSE LET template_contents == LoadTemplate(files, o)
             IN  IF IsRaised(template_contents) THEN template_contents
                 ELSE [tokens |->
                          Sorted(ToSet(FindAll("input", PathStr(path))
                                       \o FindAll("input", template_contents.text)))]

\* _verify_input_tokens that only rejects too few values
VerifyInputTokensTooFewOnly(tokens, user_input) ==
    IF Len(tokens) > 0 /\ ~user_input.some
    THEN MismatchedTokenError(Len(tokens), 0)
    ELSE IF ~user_input.some THEN Returned
    ELSE IF Len(tokens) > Len(user_input.val)
         THEN MismatchedTokenError(Len(tokens), Len(user_input.val))
         ELSE Returned

\* ScopedPageCreator._verify_input_tokens
VerifyInputTokens(tokens, user_input) ==
    IF Len(tokens) > 0 /\ ~user_input.some
    THEN MismatchedTokenError(Len(tokens), 0)
    ELSE IF ~user_input.some THEN Returned
    ELSE IF Len(tokens) # Len(user_input.val)
         THEN MismatchedTokenError(Len(tokens), Len(user_input.val))
         ELSE Returned

\* zip(a, b) stops at the shorter of the two
ZipLen(a, b) == IF Len(a) <= Len(b) THEN Len(a) ELSE Len(b)

RECURSIVE SubstituteInputLoop(_, _, _, _)
SubstituteInputLoop(s, values, tokens, i) ==
    IF i > ZipLen(values, tokens) THEN s
    ELSE SubstituteInputLoop(
             Replace(s, tokens[i], Replace(values[i], <<" ">>, <<"_">>)),
             values, tokens, i + 1)

\* ScopedPageCreator.__substitute_input_tokens
SubstituteInputTokens(s, user_input, tokens) ==
    IF user_input.some THEN SubstituteInputLoop(s, user_input.val, tokens, 1) ELSE s

RECURSIVE SubstituteNameLoop(_, _, _, _)
SubstituteNameLoop(s, found, name, i) ==
    IF i > Len(found) THEN s
    ELSE SubstituteNameLoop(Replace(s, found[i], name), found, name, i + 1)

\* __substitute_name_tokens that turns the spaces of the name into underscores
SubstituteNameTokensUnderscored(s, name) ==
    SubstituteNameLoop(s, FindAll("name", s), Replace(name, <<" ">>, <<"_">>), 1)

\* ScopedPageCreator.__substitute_name_tokens
SubstituteNameTokens(s, name) == SubstituteNameLoop(s, FindAll("name", s), name, 1)

RECURSIVE SubstituteDateLoop(_, _, _, _)
SubstituteDateLoop(s, found, reads, i) ==
    IF i > Len(found) THEN s
    ELSE LET strftime_value == SubSeq(found[i], 4, Len(found[i]) - 1)
         IN  SubstituteDateLoop(
                 Replace(s, found[i], StrFTime(strftime_value, reads[i])),
                 found, reads, i + 1)

\* s.replace(old, new, 1): the first occurrence only
ReplaceOnce(s, old, new) ==
    LET k == FindFrom(s, old, 1)
    IN  IF k = 0 THEN s
        ELSE SubSeq(s, 1, k - 1) \o new \o SubSeq(s, k + Len(old), Len(s))

RECURSIVE SubstituteDateLoopEach(_, _, _, _)
SubstituteDateLoopEach(s, found, reads, i) ==
    IF i > Len(found) THEN s
    ELSE LET strftime_value == SubSeq(found[i], 4, Len(found[i]) - 1)
         IN  SubstituteDateLoopEach(
                 ReplaceOnce(s, found[i], StrFTime(strftime_value, reads[i])),
                 found, reads, i + 1)

\* __substitute_date_tokens that formats every occurrence from a reading of its own
SubstituteDateTokensEach(s, reads) ==
    SubstituteDateLoopEach(s, FindAll("date", s), reads, 1)

\* ScopedPageCreator.__substitute_date_tokens; reads[i] is the clock reading of the
\* i-th pendulum.now()
SubstituteDateTokens(s, reads) == SubstituteDateLoop(s, FindAll("date", s), reads, 1)

\* what _substitute_tokens hands to __substitute_date_tokens
BeforeDateTokens(s, o, tokens) ==
    SubstituteNameTokens(SubstituteInputTokens(s, o.user_input, tokens), o.name)

\* _substitute_tokens without its date pass
SubstituteTokensWithoutDates(s, o, tokens, reads) == BeforeDateTokens(s, o, tokens)

\* ScopedPageCreator._substitute_tokens
SubstituteTokens(s, o, tokens, reads) ==
    SubstituteDateTokens(BeforeDateTokens(s, o, tokens), reads)

\* the number of pendulum.now() calls _substitute_tokens makes on s
NowCalls(s, o, tokens) == Len(FindAll("date", BeforeDateTokens(s, o, tokens)))

\* create_page that substitutes the path only if a template is configured
SubstitutedPathWithTemplateOnly(converted, o, tokens, reads) ==
    IF o.template_filename.some
    THEN PathStr(Path(SubstituteTokens(PathStr(converted), o, tokens, reads)))
    ELSE PathStr(converted)

\* create_page: path = pathlib.Path(self._substitute_tokens(str(path))), as a str
SubstitutedPath(converted, o, tokens, reads) ==
    PathStr(Path(SubstituteTokens(PathStr(converted), o, tokens, reads)))

\* create_page: the template contents are substituted only if a template is configured
PageContent(template_contents, o, tokens, reads) ==
    IF o.template_filename.some
    THEN SubstituteTokens(template_contents, o, tokens, reads)
    ELSE template_contents

\* the number of pendulum.now() calls create_page makes for the page content
ContentNowCalls(template_contents, o, tokens) ==
    IF o.template_filename.some THEN NowCalls(template_contents, o, tokens) ELSE 0

\* ScopedPageCreator.create_page from call to return, on the filesystem files and
\* with clock[i] the reading of its i-th pendulum.now(): the ScopedPage returned or
\* the exception raised
CreatePage(files, o, clock) ==
    LET checked == CheckBasePathExists(files, o)
    IN  IF IsRaised(checked) THEN checked
        ELSE
    LET got == GetInputTokens(files, o)
    IN  IF IsRaised(got) THEN got
        ELSE
    LET verified == VerifyInputTokens(got.tokens, o.user_input)
    IN  IF IsRaised(verified) THEN verified
        ELSE
    LET converted == ConvertBasePathToPath(o)
    IN  IF IsRaised(converted) THEN converted
        ELSE
    LET n == NowCalls(PathStr(converted), o, got.tokens)
        path == SubstitutedPath(converted, o, got.tokens, SubSeq(clock, 1, n))
        template_contents == LoadTemplate(files, o)
    IN  IF IsRaised(template_contents) THEN template_contents
        ELSE ScopedPage(path,
                 PageContent(template_contents.text, o, got.tokens,
                     SubSeq(clock, n + 1,
                            n + ContentNowCalls(template_contents.text, o,
                                                got.tokens))))

\* save_to_disk without its existence check
PageFileExistsUnchecked(files, scoped_page_file) == FALSE

\* save_to_disk: scoped_page_file.exists()
PageFileExists(files, scoped_page_file) == Exists(files, scoped_page_file)

----------------------------------------------------------------------------
(* The options and the filesystems the model runs on *)

TokInput0 == <<"{", "i", "n", "p", "u", "t", "0", "}">>
TokInput1 == <<"{", "i", "n", "p", "u", "t", "1", "}">>
TokName == <<"{", "n", "a", "m", "e", "}">>
TokDate == <<"{", "d", ":", "%", "d", "}">>

\* /b and the home directory exist, /x does not
BasePaths == {<<"/", "b">>, <<"~">>, <<"/", "x">>}
PagePaths == {<<"p", " ", "q">>, TokInput0}
Filenames == {<<"n">>, TokInput1 \o TokInput0, TokName \o <<" ">> \o TokDate}
Extensions == {<<"m", "d">>, <<".", "m", "d">>, <<>>}
Names == {<<"s", " ", "t">>}
InputValues == {<<"u">>, <<"v", " ", "w">>}
TemplatePaths == {None, Some(<<"/", "t">>)}
\* template a exists in /b/.templates and in /t, template m nowhere
TemplateFilenames == {None, Some(<<"a">>), Some(<<"m">>)}

\* all lists of at most n values
RECURSIVE ListsUpTo(_, _)
ListsUpTo(S, n) ==
    IF n = 0 THEN {<<>>}
    ELSE LET shorter == ListsUpTo(S, n - 1)
         IN  shorter \cup {Append(l, v) : l \in shorter, v \in S}

UserInputs == {None} \cup {Some(l) : l \in ListsUpTo(InputValues, MaxInputs)}

\* PageCreatorOptions
PageCreatorOptions ==
    [base_path : BasePaths, page_path : PagePaths, filename : Filenames,
     extension : Extensions, name : Names, user_input : UserInputs,
     template_path : TemplatePaths, template_filename : TemplateFilenames]

\* the directories and templates every run starts with
BaseFiles ==
    (<<"/">> :> Dir) @@ (<<"/", "b">> :> Dir) @@ (<<"/", "h">> :> Dir)
    @@ (<<"/", "t">> :> Dir)
    @@ (<<"/", "b", "/", ".", "t", "e", "m", "p", "l", "a", "t", "e", "s">> :> Dir)
    @@ (<<"/", "b", "/", ".", "t", "e", "m", "p", "l", "a", "t", "e", "s", "/", "a">>
            :> File(TokInput0 \o <<" ">> \o TokName \o TokDate \o <<"\n">>))
    @@ (<<"/", "t", "/", "a">> :> File(<<"c", " ", "d", "\n">>))

\* what else is on the disk when the run starts: nothing, a page written earlier,
\* or a file where a page's directory would be
InitialFiles ==
    {BaseFiles,
     BaseFiles @@ (<<"/", "b", "/", "p", "_", "q">> :> Dir)
               @@ (<<"/", "b", "/", "p", "_", "q", "/", "n", ".", "m", "d">>
                       :> File(<<"e">>)),
     BaseFiles @@ (<<"/", "b", "/", "p", "_", "q">> :> File(<<"e">>))}

----------------------------------------------------------------------------
(* State *)

VARIABLES
    options,            \* ScopedPageCreator._options
    all_input_tokens,   \* ScopedPageCreator._all_input_tokens
    files,              \* the filesystem
    now,                \* the clock
    pc,                 \* where the running create_page or save_to_disk call is
    path,               \* create_page's local variable path, as a str
    result,             \* what the last create_page call returned or raised
    page,               \* the ScopedPage the last successful create_page returned
    saved,              \* what the last save_to_disk call returned or raised
    calls,              \* the methods the running or last create_page call has entered
    files_at_call,      \* the filesystem when the running or last call was made
    last_call,          \* the method called last: create_page or save_to_disk
    creates,            \* number of create_page calls made
    saves,              \* number of save_to_disk calls made
    clock_reads,        \* what pendulum.now() gave the running or last create_page call
    CONFIG,             \* tembo.cli.CONFIG
    args,               \* the arguments of new: scope, inputs, dry_run, example
    config_scope,       \* new's local variable config_scope
    echoed,             \* the messages cli_message has relayed
    raised,             \* the exception that left new uncaught
    exit_code,          \* the exit status of the command
    other_pc,           \* where a second, concurrent save_to_disk call on the page is
    other_saved,        \* what the second save_to_disk call returned or raised
    intruded            \* who made a file at the page's path between the existence
                        \* check and the write of the running or last save_to_disk

vars == <<options, all_input_tokens, files, now, pc, path, result, page, saved,
          calls, files_at_call, last_call, creates, saves, clock_reads,
          CONFIG, args, config_scope, echoed, raised, exit_code,
          other_pc, other_saved, intruded>>

\* the state of the command line, which create_page and save_to_disk do not touch
cli_vars == <<CONFIG, args, config_scope, echoed, raised, exit_code>>

\* what other actors on the filesystem do, which a call alone does not touch
race_vars == <<other_pc, other_saved, intruded>>

\* nobody else has acted
NoOtherActor ==
    /\ other_pc = "idle"
    /\ other_saved = NoResult
    /\ intruded = {}

\* the page creator is used without the command line
NoCommand ==
    /\ CONFIG = NoResult
    /\ args = NoResult
    /\ config_scope = NoResult
    /\ echoed = <<>>
    /\ raised = NoResult
    /\ exit_code = NoResult

\* ScopedPageCreator.__init__, on any of the filesystems; the entries under /b/p_q
\* are there only for the options whose pages go to /b/p_q
Init ==
    /\ options \in PageCreatorOptions
    /\ all_input_tokens = <<>>
    /\ files \in InitialFiles
    /\ files # BaseFiles =>
           options.base_path = <<"/", "b">> /\ options.page_path = <<"p", " ", "q">>
    /\ now = 0
    /\ pc = "idle"
    /\ path = <<>>
    /\ result = NoResult
    /\ page = NoResult
    /\ saved = NoResult
    /\ calls = <<>>
    /\ files_at_call = files
    /\ last_call = "none"
    /\ creates = 0
    /\ saves = 0
    /\ clock_reads = <<>>
    /\ NoCommand
    /\ NoOtherActor

----------------------------------------------------------------------------
(* create_page *)

\* a create_page that makes the base path when it is missing, and goes on
CheckBasePathMakingIt ==
    /\ pc = "idle"
    /\ creates < MaxCreates
    /\ creates' = creates + 1
    /\ calls' = <<"_check_base_path_exists">>
    /\ files_at_call' = files
    /\ last_call' = "create_page"
    /\ clock_reads' = <<>>
    /\ files' = Mkdir(files, ExpandUser(Path(options.base_path))).made
    /\ result' = NoResult
    /\ pc' = "get_input_tokens"
    /\ UNCHANGED <<options, all_input_tokens, now, path, page, saved, saves>>
    /\ UNCHANGED cli_vars
    /\ UNCHANGED race_vars

\* create_page is called: _check_base_path_exists
CheckBasePath ==
    /\ pc = "idle"
    /\ creates < MaxCreates
    /\ creates' = creates + 1
    /\ calls' = <<"_check_base_path_exists">>
    /\ files_at_call' = files
    /\ last_call' = "create_page"
    /\ clock_reads' = <<>>
    /\ LET checked == CheckBasePathExists(files, options)
       IN  IF IsRaised(checked)
           THEN /\ result' = checked
                /\ pc' = "idle"
           ELSE /\ result' = NoResult
                /\ pc' = "get_input_tokens"
    /\ UNCHANGED <<options, all_input_tokens, files, now, path, page, saved, saves>>
    /\ UNCHANGED cli_vars
    /\ UNCHANGED race_vars

\* a creator that adds the tokens of each call to those of the calls before
GetTokensKeepingEarlier ==
    /\ pc = "get_input_tokens"
    /\ LET got == GetInputTokens(files, options)
       IN  /\ calls' = calls \o <<"_get_input_tokens">>
                  \o (IF IsRaised(got) /\ got.exc = "ValueError"
                      THEN <<>> ELSE <<"_load_template">>)
           /\ IF IsRaised(got)
              THEN /\ result' = got
                   /\ pc' = "idle"
                   /\ UNCHANGED all_input_tokens
              ELSE /\ all_input_tokens' = all_input_tokens \o got.tokens
                   /\ pc' = "verify_input_tokens"
                   /\ UNCHANGED result
    /\ UNCHANGED <<options, files, now, path, page, saved, files_at_call, last_call,
                   creates, saves, clock_reads>>
    /\ UNCHANGED cli_vars
    /\ UNCHANGED race_vars

\* self._all_input_tokens = self._get_input_tokens()
GetTokens ==
    /\ pc = "get_input_tokens"
    /\ LET got == GetInputTokens(files, options)
       IN  /\ calls' = calls \o <<"_get_input_tokens">>
                  \o (IF IsRaised(got) /\ got.exc = "ValueError"
                      THEN <<>> ELSE <<"_load_template">>)
           /\ IF IsRaised(got)
              THEN /\ result' = got
                   /\ pc' = "idle"
                   /\ UNCHANGED all_input_tokens
              ELSE /\ all_input_tokens' = got.tokens
                   /\ pc' = "verify_input_tokens"
                   /\ UNCHANGED result
    /\ UNCHANGED <<options, files, now, path, page, saved, files_at_call, last_call,
                   creates, saves, clock_reads>>
    /\ UNCHANGED cli_vars
    /\ UNCHANGED race_vars

\* self._verify_input_tokens()
VerifyTokens ==
    /\ pc = "verify_input_tokens"
    /\ calls' = Append(calls, "_verify_input_tokens")
    /\ LET verified == VerifyInputTokens(all_input_tokens, options.user_input)
       IN  IF IsRaised(verified)
           THEN /\ result' = verified
                /\ pc' = "idle"
           ELSE /\ pc' = "convert_path"
                /\ UNCHANGED result
    /\ UNCHANGED <<options, all_input_tokens, files, now, path, page, saved,
                   files_at_call, last_call, creates, saves, clock_reads>>
    /\ UNCHANGED cli_vars
    /\ UNCHANGED race_vars

\* path = pathlib.Path(self._substitute_tokens(str(self._convert_base_path_to_path())))
SubstitutePath ==
    /\ pc = "convert_path"
    /\ LET converted == ConvertBasePathToPath(options)
       IN  IF IsRaised(converted)
           THEN /\ calls' = Append(calls, "_convert_base_path_to_path")
                /\ result' = converted
                /\ pc' = "idle"
                /\ UNCHANGED <<path, now, clock_reads>>
           ELSE \E reads \in ClockReads(now, NowCalls(PathStr(converted), options,
                                                       all_input_tokens)) :
                    /\ calls' = calls \o <<"_convert_base_path_to_path",
                                           "_substitute_tokens">>
                    /\ path' = SubstitutedPath(converted, options, all_input_tokens,
                                                reads)
                    /\ now' = IF reads = <<>> THEN now ELSE reads[Len(reads)]
                    /\ clock_reads' = clock_reads \o reads
                    /\ pc' = "load_template"
                    /\ UNCHANGED result
    /\ UNCHANGED <<options, all_input_tokens, files, page, saved, files_at_call,
                   last_call, creates, saves>>
    /\ UNCHANGED cli_vars
    /\ UNCHANGED race_vars

\* template_contents = self._load_template(), its substitution, and the return
SubstituteTemplate ==
    /\ pc = "load_template"
    /\ LET loaded == LoadTemplate(files, options)
       IN  IF IsRaised(loaded)
           THEN /\ calls' = Append(calls, "_load_template")
                /\ result' = loaded
                /\ pc' = "idle"
                /\ UNCHANGED <<page, now, clock_reads>>
           ELSE \E reads \in ClockReads(now, ContentNowCalls(loaded.text, options,
                                                              all_input_tokens)) :
                    /\ calls' = calls \o <<"_load_template">>
                           \o (IF options.template_filename.some
                               THEN <<"_substitute_tokens">> ELSE <<>>)
                    /\ page' = ScopedPage(path, PageContent(loaded.text, options,
                                                            all_input_tokens, reads))
                    /\ result' = page'
                    /\ now' = IF reads = <<>> THEN now ELSE reads[Len(reads)]
                    /\ clock_reads' = clock_reads \o reads
                    /\ pc' = "idle"
    /\ UNCHANGED <<options, all_input_tokens, files, path, saved, files_at_call,
                   last_call, creates, saves>>
    /\ UNCHANGED cli_vars
    /\ UNCHANGED race_vars

----------------------------------------------------------------------------
(* save_to_disk *)

\* save_to_disk is called on the page: the parent directories and the existence check
SaveCheck ==
    /\ pc = "idle"
    /\ page # NoResult
    /\ saves < MaxSaves
    /\ saves' = saves + 1
    /\ files_at_call' = files
    /\ last_call' = "save_to_disk"
    /\ LET scoped_page_file == Path(page.path)
           made == Mkdir(files, Parent(scoped_page_file))
       IN  IF IsRaised(made)
           THEN /\ saved' = made
                /\ pc' = "idle"
                /\ UNCHANGED files
           ELSE /\ files' = made.made
                /\ IF PageFileExists(made.made, scoped_page_file)
                   THEN /\ saved' = ScopedPageAlreadyExists(
                                        FString("{path} already exists", page.path))
                        /\ pc' = "idle"
                   ELSE /\ saved' = NoResult
                        /\ pc' = "write"
    /\ UNCHANGED <<options, all_input_tokens, now, path, result, page, calls, creates,
                   clock_reads>>
    /\ UNCHANGED cli_vars
    /\ intruded' = {}
    /\ UNCHANGED <<other_pc, other_saved>>

\* a save_to_disk that opens the file with mode "x": the write fails if the file is there
SaveWriteExclusive ==
    /\ pc = "write"
    /\ IF Exists(files, Path(page.path))
       THEN /\ saved' = Raised("FileExistsError")
            /\ UNCHANGED files
       ELSE /\ files' = WriteText(files, Path(page.path), page.page_content)
            /\ saved' = Success(page.path)
    /\ pc' = "idle"
    /\ UNCHANGED <<options, all_input_tokens, now, path, result, page, calls,
                   files_at_call, last_call, creates, saves, clock_reads>>
    /\ UNCHANGED cli_vars
    /\ UNCHANGED race_vars

\* the file is opened for writing, page_content is written, Success is returned
SaveWrite ==
    /\ pc = "write"
    /\ files' = WriteText(files, Path(page.path), page.page_content)
    /\ saved' = Success(page.path)
    /\ pc' = "idle"
    /\ UNCHANGED <<options, all_input_tokens, now, path, result, page, calls,
                   files_at_call, last_call, creates, saves, clock_reads>>
    /\ UNCHANGED cli_vars
    /\ UNCHANGED race_vars

\* a malformed placeholder, no token of any kind
TokMalformed == <<"{", "i", "n", "p", "u", "}">>

\* filename patterns: a malformed placeholder before a name token, two input tokens,
\* an input token inside a pair of braces, a date token between two name tokens
PatternFilenames ==
    {<<"a">> \o TokMalformed \o TokName,
     TokInput1 \o TokInput0,
     <<"{">> \o TokInput0 \o <<"a", "m", "e", "}">>,
     TokName \o TokDate \o TokName}

\* scope names: a plain one and one that is the text of a date token
PatternNames == {<<"s", " ", "t">>, TokDate}

\* input values: plain ones, one that is the text of an input token and one that is
\* the text of the name token
PatternValues == {<<"v", " ", "w">>, <<"n">>, TokInput1, TokName}

\* the options of the scopes that differ in their filename pattern, name and input
PatternOptions ==
    [base_path : {<<"/", "b">>}, page_path : {<<"p">>}, filename : PatternFilenames,
     extension : {<<"m", "d">>}, name : PatternNames,
     user_input : {None} \cup {Some(l) : l \in ListsUpTo(PatternValues, MaxInputs)},
     template_path : {None}, template_filename : {None, Some(<<"a">>)}]

\* ScopedPageCreator.__init__ with the options of a pattern scope
PatternInit ==
    /\ options \in PatternOptions
    /\ all_input_tokens = <<>>
    /\ files = BaseFiles
    /\ now = 0
    /\ pc = "idle"
    /\ path = <<>>
    /\ result = NoResult
    /\ page = NoResult
    /\ saved = NoResult
    /\ calls = <<>>
    /\ files_at_call = files
    /\ last_call = "none"
    /\ creates = 0
    /\ saves = 0
    /\ clock_reads = <<>>
    /\ NoCommand
    /\ NoOtherActor

Next ==
    \/ CheckBasePath
    \/ GetTokens
    \/ VerifyTokens
    \/ SubstitutePath
    \/ SubstituteTemplate
    \/ SaveCheck
    \/ SaveWrite

Spec == Init /\ [][Next]_vars

\* create_page and save_to_disk on the pattern scopes
PatternSpec == PatternInit /\ [][Next]_vars

----------------------------------------------------------------------------
(* create_page and save_to_disk on scopes with dotted filenames, many input tokens,
   repeated date tokens and a template jinja2 cannot compile *)

TokInput == <<"{", "i", "n", "p", "u", "t", "}">>
TokInput10 == <<"{", "i", "n", "p", "u", "t", "1", "0", "}">>
TokDateDash == <<"{", "d", ":", "-", "%", "d", "}">>
TokDateDotted == <<"{", "d", ":", "%", "d", ".", "%", "d", "}">>
TokDateSpaced == <<"{", "d", ":", "%", "d", " ", "%", "d", "}">>

\* the tokens {input0} to {input10}, in the order of their numbers
ElevenTokens ==
    TokInput0 \o TokInput1
        \o <<"{", "i", "n", "p", "u", "t", "2", "}">>
        \o <<"{", "i", "n", "p", "u", "t", "3", "}">>
        \o <<"{", "i", "n", "p", "u", "t", "4", "}">>
        \o <<"{", "i", "n", "p", "u", "t", "5", "}">>
        \o <<"{", "i", "n", "p", "u", "t", "6", "}">>
        \o <<"{", "i", "n", "p", "u", "t", "7", "}">>
        \o <<"{", "i", "n", "p", "u", "t", "8", "}">>
        \o <<"{", "i", "n", "p", "u", "t", "9", "}">>
        \o TokInput10

\* eleven different values
ElevenInputs ==
    <<<<"a">>, <<"b">>, <<"c">>, <<"d">>, <<"e">>, <<"h">>, <<"i">>, <<"l">>, <<"m">>,
      <<"n">>, <<"p">>>>

\* filenames: one input token, eleven, the token without digits before one with,
\* a dotted name, a dot inside a date format, a dot before an input token, a date
\* token written twice around another, a name and a date token with spaces
EdgeFilenames ==
    {TokInput0,
     ElevenTokens,
     TokInput \o TokInput0,
     <<"a", ".", "b">>,
     TokDateDotted,
     <<"x", ".">> \o TokInput0,
     TokDate \o TokDateDash \o TokDate,
     TokName \o <<" ">> \o TokDateSpaced}

\* the options of these scopes; template s is the one jinja2 cannot compile
EdgeOptions ==
    [base_path : {<<"/", "b">>}, page_path : {<<"p", " ", "q">>},
     filename : EdgeFilenames, extension : {<<"m", "d">>},
     name : {<<"s">>, <<"s", " ", "t">>},
     user_input : {None} \cup {Some(l) : l \in ListsUpTo({<<"v", " ", "w">>}, MaxInputs)}
                         \cup {Some(ElevenInputs)},
     template_path : {None},
     template_filename : {None, Some(<<"a">>), Some(<<"s">>)}]

\* the filesystem with template s, a block tag left open
EdgeFiles ==
    BaseFiles
    @@ (<<"/", "b", "/", ".", "t", "e", "m", "p", "l", "a", "t", "e", "s", "/", "s">>
            :> File(<<"{", "%", " ", "x", "\n">>))

\* ScopedPageCreator.__init__ with the options of one of these scopes
EdgeInit ==
    /\ options \in EdgeOptions
    /\ all_input_tokens = <<>>
    /\ files = EdgeFiles
    /\ now = 0
    /\ pc = "idle"
    /\ path = <<>>
    /\ result = NoResult
    /\ page = NoResult
    /\ saved = NoResult
    /\ calls = <<>>
    /\ files_at_call = files
    /\ last_call = "none"
    /\ creates = 0
    /\ saves = 0
    /\ clock_reads = <<>>
    /\ NoCommand
    /\ NoOtherActor

EdgeSpec == EdgeInit /\ [][Next]_vars

----------------------------------------------------------------------------
(* create_page and save_to_disk while others use the same filesystem: an actor that
   makes a file at the page's path, a second save_to_disk call on the page, and an
   actor that rewrites or removes the template file *)

\* what the other actor writes into the file it makes
OtherContent == <<"o">>

\* what the template file holds after it has been rewritten: one more input token
ChangedTemplate == TokInput0 \o TokInput1 \o <<"\n">>

\* the template file create_page loads, as a Path
TemplateFile(o) == PathJoin(ConvertedTemplatePath(o), Path(o.template_filename.val))

\* the variables of the creator and the command, left alone by the other actors
call_vars ==
    <<options, all_input_tokens, now, pc, path, result, page, saved, calls,
      files_at_call, last_call, creates, saves, clock_reads>>

\* another actor makes a file at the page's path after the existence check of the
\* running save_to_disk has passed and before its write
OtherActorCreates ==
    /\ pc = "write"
    /\ ~Exists(files, Path(page.path))
    /\ files' = WriteText(files, Path(page.path), OtherContent)
    /\ intruded' = intruded \cup {"actor"}
    /\ UNCHANGED <<other_pc, other_saved>>
    /\ UNCHANGED call_vars
    /\ UNCHANGED cli_vars

\* a second save_to_disk call on the page, made from the first call on until the
\* page is created anew: the parent directories and the existence check
OtherSaveCheck ==
    /\ other_pc = "idle"
    /\ last_call = "save_to_disk"
    /\ LET scoped_page_file == Path(page.path)
           made == Mkdir(files, Parent(scoped_page_file))
       IN  IF IsRaised(made)
           THEN /\ other_saved' = made
                /\ other_pc' = "done"
                /\ UNCHANGED files
           ELSE /\ files' = made.made
                /\ IF PageFileExists(made.made, scoped_page_file)
                   THEN /\ other_saved' = ScopedPageAlreadyExists(
                                              FString("{path} already exists", page.path))
                        /\ other_pc' = "done"
                   ELSE /\ other_saved' = NoResult
                        /\ other_pc' = "write"
    /\ UNCHANGED intruded
    /\ UNCHANGED call_vars
    /\ UNCHANGED cli_vars

\* the second call opens the file for writing, writes page_content, returns Success
OtherSaveWrite ==
    /\ other_pc = "write"
    /\ last_call = "save_to_disk"
    /\ files' = WriteText(files, Path(page.path), page.page_content)
    /\ other_saved' = Success(page.path)
    /\ other_pc' = "done"
    /\ intruded' = IF pc = "write" THEN intruded \cup {"save"} ELSE intruded
    /\ UNCHANGED call_vars
    /\ UNCHANGED cli_vars

\* create_page has collected the tokens and has not yet loaded the template again
BetweenTemplateLoads ==
    /\ last_call = "create_page"
    /\ pc \in {"verify_input_tokens", "convert_path", "load_template"}
    /\ options.template_filename.some
    /\ IsFile(files, TemplateFile(options))

\* another actor rewrites the template file during a create_page call
TemplateChanged ==
    /\ BetweenTemplateLoads
    /\ files[PathStr(TemplateFile(options))].content # ChangedTemplate
    /\ files' = WriteText(files, TemplateFile(options), ChangedTemplate)
    /\ UNCHANGED call_vars
    /\ UNCHANGED cli_vars
    /\ UNCHANGED race_vars

\* another actor removes the template file during a create_page call
TemplateRemoved ==
    /\ BetweenTemplateLoads
    /\ files' = [q \in DOMAIN files \ {PathStr(TemplateFile(options))} |-> files[q]]
    /\ UNCHANGED call_vars
    /\ UNCHANGED cli_vars
    /\ UNCHANGED race_vars

\* the options of the scopes the races are run on
RaceOptions ==
    [base_path : {<<"/", "b">>}, page_path : {<<"p">>},
     filename : {<<"n">>, TokInput0}, extension : {<<"m", "d">>},
     name : {<<"s", " ", "t">>},
     user_input : {None} \cup {Some(l) : l \in ListsUpTo({<<"u">>}, MaxInputs)},
     template_path : {None}, template_filename : {None, Some(<<"a">>)}]

\* ScopedPageCreator.__init__ with the options of one of these scopes
RaceInit ==
    /\ options \in RaceOptions
    /\ all_input_tokens = <<>>
    /\ files = BaseFiles
    /\ now = 0
    /\ pc = "idle"
    /\ path = <<>>
    /\ result = NoResult
    /\ page = NoResult
    /\ saved = NoResult
    /\ calls = <<>>
    /\ files_at_call = files
    /\ last_call = "none"
    /\ creates = 0
    /\ saves = 0
    /\ clock_reads = <<>>
    /\ NoCommand
    /\ NoOtherActor

RaceNext ==
    \/ Next
    \/ OtherActorCreates
    \/ OtherSaveCheck
    \/ OtherSaveWrite
    \/ TemplateChanged
    \/ TemplateRemoved

RaceSpec == RaceInit /\ [][RaceNext]_vars

----------------------------------------------------------------------------
(* tembo new <scope> <inputs> [--dry-run] [--example] (src/tembo/cli/cli.py) *)

ScopeNotFound(message) == [exc |-> "ScopeNotFound", message |-> message]
EmptyConfigYML(message) == [exc |-> "EmptyConfigYML", message |-> message]
MissingConfigYML(message) == [exc |-> "MissingConfigYML", message |-> message]
MandatoryKeyNotFound(message) == [exc |-> "MandatoryKeyNotFound", message |-> message]
KeyError(key) == [exc |-> "KeyError", key |-> key]

\* str(KeyError(key)): the repr of the key, in quotes
KeyErrorStr(key) == <<"'", key, "'">>

\* the keys _new_get_config_scope reads, in its order, and the optional ones
ScopeKeys == <<"name", "path", "filename", "extension", "example", "template_filename">>
OptionalKeys == {"example", "template_filename"}

\* ScopedPage.save_to_disk from call to return: the filesystem fs it leaves and the
\* Success returned or the exception raised
SaveToDisk(fs, scoped_page) ==
    LET scoped_page_file == Path(scoped_page.path)
        made == Mkdir(fs, Parent(scoped_page_file))
    IN  IF IsRaised(made) THEN [files |-> fs, saved |-> made]
        ELSE IF PageFileExists(made.made, scoped_page_file)
             THEN [files |-> made.made,
                   saved |-> ScopedPageAlreadyExists(
                                 FString("{path} already exists", scoped_page.path))]
             ELSE [files |-> WriteText(made.made, scoped_page_file,
                                       scoped_page.page_content),
                   saved |-> Success(scoped_page.path)]

\* _new_verify_name_exists: Returned, or the exception raised
NewVerifyNameExists(config, scope, fs) ==
    IF \E i \in 1..Len(config.scopes) : "name" \notin DOMAIN config.scopes[i]
    THEN KeyError("name")
    ELSE IF \E i \in 1..Len(config.scopes) : config.scopes[i].name = scope
    THEN Returned
    ELSE IF Len(config.scopes) > 0
    THEN ScopeNotFound(FString("Scope {scope} not found in config.yml", scope))
    ELSE IF Exists(fs, Path(config.config_path))
    THEN EmptyConfigYML(FString("Config.yml found in {config_path} is empty",
                                config.config_path))
    ELSE MissingConfigYML(FString("No config.yml found in {config_path}",
                                  config.config_path))

\* the scopes whose name is the requested one
MatchingScopes(config, scope) == SelectSeq(config.scopes, LAMBDA u : u.name = scope)

\* the value _new_get_config_scope stores for a key: the last matching scope's, or
\* None for an optional key that a matching scope lacks
ScopeValue(config, scope, key) ==
    LET matching == MatchingScopes(config, scope)
    IN  IF \E i \in 1..Len(matching) : key \notin DOMAIN matching[i]
        THEN None
        ELSE Some(matching[Len(matching)][key])

\* the mandatory keys that a matching scope lacks
MissingKeys(config, scope) ==
    {k \in 1..Len(ScopeKeys) :
        /\ ScopeKeys[k] \notin OptionalKeys
        /\ \E i \in 1..Len(MatchingScopes(config, scope)) :
               ScopeKeys[k] \notin DOMAIN MatchingScopes(config, scope)[i]}

\* _new_get_config_scope: the dict, or MandatoryKeyNotFound for the first mandatory
\* key that is missing
NewGetConfigScope(config, scope) ==
    IF MissingKeys(config, scope) # {}
    THEN LET k == CHOOSE k \in MissingKeys(config, scope) :
                      \A j \in MissingKeys(config, scope) : k <= j
         IN  MandatoryKeyNotFound(
                 FString("Key {key_error} not found in config.yml",
                         KeyErrorStr(ScopeKeys[k])))
    ELSE [name |-> ScopeValue(config, scope, "name").val,
          path |-> ScopeValue(config, scope, "path").val,
          filename |-> ScopeValue(config, scope, "filename").val,
          extension |-> ScopeValue(config, scope, "extension").val,
          example |-> ScopeValue(config, scope, "example"),
          template_filename |-> ScopeValue(config, scope, "template_filename")]

\* the PageCreatorOptions _new_create_scoped_page builds
NewPageCreatorOptions(config, scope_dict, inputs) ==
    [base_path |-> config.base_path,
     template_path |-> Some(config.template_path),
     page_path |-> scope_dict.path,
     filename |-> scope_dict.filename,
     extension |-> scope_dict.extension,
     name |-> scope_dict.name,
     user_input |-> Some(inputs),
     template_filename |-> scope_dict.template_filename]

\* what _new_create_scoped_page relays for an exception it catches
CreateFailureMessage(error, scope_dict) ==
    IF error.exc = "MismatchedTokenError"
    THEN IF scope_dict.example.some
         THEN FString("Your tembo config.yml/template specifies {expected} input tokens, you gave {given}. Example: {example}",
                      <<error.expected, error.given, scope_dict.example.val>>)
         ELSE FString("Your tembo config.yml/template specifies {expected} input tokens, you gave {given}",
                      <<error.expected, error.given>>)
    ELSE error.message

\* the exceptions of create_page that _new_create_scoped_page catches
CaughtByNew ==
    {"BasePathDoesNotExistError", "TemplateFileNotFoundError", "MismatchedTokenError"}

\* a new that takes no --example flag
ExampleRequestedNever(a) == FALSE

\* the --example flag of new
ExampleRequested(a) == a.example

\* a new that takes no --dry-run flag
DryRunRequestedNever(a) == FALSE

\* the --dry-run flag of new
DryRunRequested(a) == a.dry_run

\* raise SystemExit(0)
SuccessExitCode == 0

\* raise SystemExit(1), and the exit status after an uncaught exception
FailureExitCode == 1

\* the number of pendulum.now() calls one create_page call makes
CreatePageNowCalls(fs, o) ==
    IF IsRaised(CheckBasePathExists(fs, o)) THEN 0
    ELSE IF IsRaised(GetInputTokens(fs, o)) THEN 0
    ELSE IF IsRaised(VerifyInputTokens(GetInputTokens(fs, o).tokens, o.user_input))
    THEN 0
    ELSE IF IsRaised(ConvertBasePathToPath(o)) THEN 0
    ELSE NowCalls(PathStr(ConvertBasePathToPath(o)), o, GetInputTokens(fs, o).tokens)
             + ContentNowCalls(LoadTemplate(fs, o).text, o,
                               GetInputTokens(fs, o).tokens)

\* the scopes of the config.yml files the command is run with
ScopeN ==
    [name |-> <<"n">>, path |-> <<"p", " ", "q">>, filename |-> <<"n">>,
     extension |-> <<"m", "d">>, example |-> <<"x">>]
ScopeO ==
    [name |-> <<"o">>, path |-> <<"p", " ", "q">>, filename |-> TokInput0,
     extension |-> <<"m", "d">>, template_filename |-> <<"a">>]
ScopeM ==
    [name |-> <<"n">>, path |-> <<"p", " ", "q">>, filename |-> <<"n">>,
     extension |-> <<"m", "d">>, template_filename |-> <<"m">>]
ScopeNoFilename ==
    [name |-> <<"n">>, path |-> <<"p", " ", "q">>, extension |-> <<"m", "d">>]
ScopeNoName ==
    [path |-> <<"p", " ", "q">>, filename |-> <<"n">>, extension |-> <<"m", "d">>]

\* CONFIG.scopes: no scope, well-formed scopes, a template that does not exist, a
\* scope without filename, a scope without name
ScopeLists ==
    {<<>>, <<ScopeN>>, <<ScopeO, ScopeN>>, <<ScopeM>>, <<ScopeNoFilename>>,
     <<ScopeNoName, ScopeN>>}

\* tembo.cli.CONFIG: /b, /t and /h exist, /x does not
Configs ==
    [base_path : {<<"/", "b">>, <<"/", "x">>}, template_path : {<<"/", "t">>},
     config_path : {<<"/", "h">>, <<"/", "x">>}, scopes : ScopeLists]

\* the command lines
Arguments ==
    [scope : {<<"n">>, <<"o">>}, inputs : ListsUpTo({<<"u">>}, MaxInputs),
     dry_run : BOOLEAN, example : BOOLEAN]

\* the command starts
NewInit ==
    /\ CONFIG \in Configs
    /\ args \in Arguments
    /\ files \in InitialFiles
    /\ config_scope = NoResult
    /\ echoed = <<>>
    /\ raised = NoResult
    /\ exit_code = NoResult
    /\ NoOtherActor
    /\ pc = "_new_verify_name_exists"
    /\ options = NoResult
    /\ all_input_tokens = <<>>
    /\ now = 0
    /\ path = <<>>
    /\ result = NoResult
    /\ page = NoResult
    /\ saved = NoResult
    /\ calls = <<>>
    /\ files_at_call = files
    /\ last_call = "none"
    /\ creates = 0
    /\ saves = 0
    /\ clock_reads = <<>>

\* what the page creator holds, which the steps of new outside it leave alone
creator_vars ==
    <<options, all_input_tokens, files, now, path, result, page, saved, calls,
      files_at_call, last_call, creates, saves, clock_reads>>

\* _new_verify_name_exists(scope), and the handler of its three exceptions
NewVerifyName ==
    /\ pc = "_new_verify_name_exists"
    /\ LET verified == NewVerifyNameExists(CONFIG, args.scope, files)
       IN  IF ~IsRaised(verified)
           THEN /\ pc' = "_new_get_config_scope"
                /\ UNCHANGED <<echoed, raised, exit_code>>
           ELSE /\ raised' = verified
                /\ exit_code' = FailureExitCode
                /\ pc' = "exited"
                /\ echoed' = IF verified.exc = "KeyError" THEN echoed
                             ELSE Append(echoed, verified.message)
    /\ UNCHANGED <<CONFIG, args, config_scope>>
    /\ UNCHANGED race_vars
    /\ UNCHANGED creator_vars

\* config_scope = _new_get_config_scope(scope), and the handler of MandatoryKeyNotFound
NewGetScope ==
    /\ pc = "_new_get_config_scope"
    /\ LET got == NewGetConfigScope(CONFIG, args.scope)
       IN  IF IsRaised(got)
           THEN /\ echoed' = Append(echoed, got.message)
                /\ raised' = got
                /\ exit_code' = FailureExitCode
                /\ pc' = "exited"
                /\ UNCHANGED config_scope
           ELSE /\ config_scope' = got
                /\ pc' = "_new_show_example"
                /\ UNCHANGED <<echoed, raised, exit_code>>
    /\ UNCHANGED <<CONFIG, args>>
    /\ UNCHANGED race_vars
    /\ UNCHANGED creator_vars

\* _new_show_example(example, config_scope)
NewShowExample ==
    /\ pc = "_new_show_example"
    /\ IF ExampleRequested(args)
       THEN /\ echoed' = Append(echoed,
                            IF config_scope.example.some
                            THEN FString("Example for {name}: {example}",
                                         <<config_scope.name, config_scope.example.val>>)
                            ELSE FString("No example in config.yml", <<>>))
            /\ exit_code' = SuccessExitCode
            /\ pc' = "exited"
       ELSE /\ pc' = "_new_create_scoped_page"
            /\ UNCHANGED <<echoed, exit_code>>
    /\ UNCHANGED <<CONFIG, args, config_scope, raised>>
    /\ UNCHANGED race_vars
    /\ UNCHANGED creator_vars

\* scoped_page = _new_create_scoped_page(config_scope, inputs): create_page on a new
\* ScopedPageCreator, and the handlers of its three exceptions
NewCreateScopedPage ==
    /\ pc = "_new_create_scoped_page"
    /\ options' = NewPageCreatorOptions(CONFIG, config_scope, args.inputs)
    /\ creates' = creates + 1
    /\ files_at_call' = files
    /\ last_call' = "create_page"
    /\ \E clock \in ClockReads(now, CreatePageNowCalls(files, options')) :
           \E created \in {CreatePage(files, options', clock)} :
               /\ result' = created
               /\ clock_reads' = clock
               /\ now' = IF clock = <<>> THEN now ELSE clock[Len(clock)]
               /\ IF IsRaised(created)
                  THEN /\ raised' = created
                       /\ exit_code' = FailureExitCode
                       /\ pc' = "exited"
                       /\ echoed' = IF created.exc \in CaughtByNew
                                    THEN Append(echoed,
                                             CreateFailureMessage(created, config_scope))
                                    ELSE echoed
                       /\ UNCHANGED page
                  ELSE /\ page' = created
                       /\ pc' = "dry_run"
                       /\ UNCHANGED <<echoed, raised, exit_code>>
    /\ UNCHANGED <<CONFIG, args, config_scope>>
    /\ UNCHANGED race_vars
    /\ UNCHANGED <<all_input_tokens, files, path, saved, calls, saves>>

\* if dry_run: the path is relayed and the command exits
NewDryRun ==
    /\ pc = "dry_run"
    /\ IF DryRunRequested(args)
       THEN /\ echoed' = Append(echoed,
                            FString("{scoped_page.path} will be created", page.path))
            /\ exit_code' = SuccessExitCode
            /\ pc' = "exited"
       ELSE /\ pc' = "save_to_disk"
            /\ UNCHANGED <<echoed, exit_code>>
    /\ UNCHANGED <<CONFIG, args, config_scope, raised>>
    /\ UNCHANGED race_vars
    /\ UNCHANGED creator_vars

\* result = scoped_page.save_to_disk(), and the handler of ScopedPageAlreadyExists
NewSaveToDisk ==
    /\ pc = "save_to_disk"
    /\ saves' = saves + 1
    /\ files_at_call' = files
    /\ last_call' = "save_to_disk"
    /\ LET done == SaveToDisk(files, page)
       IN  /\ files' = done.files
           /\ saved' = done.saved
           /\ IF ~IsRaised(done.saved)
              THEN /\ echoed' = Append(echoed,
                                   FString("Saved {result.message} to disk",
                                           done.saved.message))
                   /\ exit_code' = SuccessExitCode
                   /\ UNCHANGED raised
              ELSE /\ raised' = done.saved
                   /\ IF done.saved.exc = "ScopedPageAlreadyExists"
                      THEN /\ echoed' = Append(echoed,
                                           FString("File {scoped_page_already_exists}",
                                                   done.saved.message))
                           /\ exit_code' = SuccessExitCode
                      ELSE /\ exit_code' = FailureExitCode
                           /\ UNCHANGED echoed
    /\ pc' = "exited"
    /\ UNCHANGED <<CONFIG, args, config_scope>>
    /\ UNCHANGED race_vars
    /\ UNCHANGED <<options, all_input_tokens, now, path, result, page, calls, creates,
                   clock_reads>>

NewNext ==
    \/ NewVerifyName
    \/ NewGetScope
    \/ NewShowExample
    \/ NewCreateScopedPage
    \/ NewDryRun
    \/ NewSaveToDisk

\* one run of tembo new
NewSpec == NewInit /\ [][NewNext]_vars

----------------------------------------------------------------------------
(* Properties of save_to_disk *)

\* a save_to_disk call has ended
SaveEnded == last_call = "save_to_disk" /\ pc = "idle"

\* something occupied the page's path when save_to_disk was called
OccupiedAtCall == page.path \in DOMAIN files_at_call

\* C1: save_to_disk never overwrites. If something occupies the page's path when
\* save_to_disk is called, the call goes no further than the existence check, it
\* raises ScopedPageAlreadyExists with the message "<path> already exists", and what
\* is at the path afterwards is what was there before.
C1_SaveNeverOverwrites ==
    (last_call = "save_to_disk" /\ OccupiedAtCall) =>
        /\ pc = "idle"
        /\ saved = ScopedPageAlreadyExists(FString("{path} already exists", page.path))
        /\ page.path \in DOMAIN files
        /\ files[page.path] = files_at_call[page.path]

\* C1 witness: the second save_to_disk of a page whose first save succeeded has
\* failed, and the file still holds what the first save wrote
C1_Witness ==
    /\ SaveEnded
    /\ saves = 2
    /\ OccupiedAtCall
    /\ IsRaised(saved)
    /\ files[page.path] = File(page.page_content)
    /\ page.page_content # <<>>

----------------------------------------------------------------------------
(* Properties of create_page *)

\* _verify_input_tokens was the last method create_page entered
VerifyRan == calls # <<>> /\ calls[Len(calls)] = "_verify_input_tokens"

\* C2: token-count validation. With T distinct tokens found: no user_input and T > 0
\* raises MismatchedTokenError(T, 0); a user_input of another length than T raises
\* MismatchedTokenError(T, len(user_input)); otherwise validation passes and
\* create_page goes on.
C2_TokenCountValidation ==
    VerifyRan =>
        LET T == Len(all_input_tokens)
            given == IF options.user_input.some THEN Len(options.user_input.val) ELSE 0
            mismatch == IF options.user_input.some THEN given # T ELSE T > 0
        IN  IF mismatch
            THEN pc = "idle" /\ result = MismatchedTokenError(T, given)
            ELSE pc = "convert_path" /\ result = NoResult

\* C2 witness: more values than tokens were given, with no token at all
C2_Witness ==
    /\ VerifyRan
    /\ IsRaised(result)
    /\ result.exc = "MismatchedTokenError"
    /\ result.expected = 0
    /\ result.given = 1

\* the last call was create_page and it has ended
CreateEnded == last_call = "create_page" /\ pc = "idle"

\* the last call was create_page and it returned a Page
CreateReturned ==
    last_call = "create_page" /\ pc = "idle" /\ result # NoResult /\ ~IsRaised(result)

\* the destination path before substitution, as a str
RawPath == PathStr(ConvertBasePathToPath(options))

\* the rendered template, the empty str if none is configured
RenderedTemplate == LoadTemplate(files, options).text

\* the distinct input tokens of the raw path and the rendered template together
FoundTokens == ToSet(FindAll("input", RawPath) \o FindAll("input", RenderedTemplate))

\* the place of a token in the ascending order of the distinct tokens
Position(token) == 1 + Cardinality({t \in FoundTokens : StrLess(t, token)})

\* the user input value at the token's place, its spaces turned into underscores
PairedValue(token) == Replace(options.user_input.val[Position(token)], <<" ">>, <<"_">>)

RECURSIVE PairAllFrom(_, _)
PairAllFrom(s, i) ==
    IF i > Len(s) THEN <<>>
    ELSE LET n == MatchInput(s, i)
         IN  IF n > 0
             THEN PairedValue(SubSeq(s, i, i + n - 1)) \o PairAllFrom(s, i + n)
             ELSE <<s[i]>> \o PairAllFrom(s, i + 1)

\* s with every input token replaced, in one pass, by the value paired with it
PairAll(s) == PairAllFrom(s, 1)

\* what s can become: its input tokens paired, then the name tokens and, at some
\* clock readings, the date tokens substituted
PairedSubstitutions(s) ==
    LET named == SubstituteNameTokens(PairAll(s), options.name)
    IN  {SubstituteDateTokens(named, reads) :
            reads \in ClockReads(0, Len(FindAll("date", named)))}

\* the token {inputN} for a single digit N
InputToken(n) ==
    <<"{", "i", "n", "p", "u", "t">>
        \o <<(<<"0", "1", "2", "3", "4", "5", "6", "7", "8", "9">>)[n + 1]>> \o <<"}">>

\* no user input value holds a brace: the values are not token text themselves, and
\* replacing one token cannot make or break another
PlainValues ==
    options.user_input.some =>
        \A i \in 1..Len(options.user_input.val) :
            \A k \in 1..Len(options.user_input.val[i]) :
                options.user_input.val[i][k] \notin {"{", "}"}

\* C3: input-token pairing. In the Page create_page returns, every occurrence of the
\* i-th token of the ascending distinct-token list (path and template together) stands
\* replaced by the i-th user input value with underscores for spaces, in the path and
\* in the content alike, wherever the tokens occur; and single-digit tokens ascend
\* with their digit, so {inputN} of {input0}..{input(k-1)}, k <= 10, is paired with
\* the N-th value.
C3_InputTokenPairing ==
    (CreateReturned /\ PlainValues) =>
        /\ page.path \in {PathStr(Path(t)) : t \in PairedSubstitutions(RawPath)}
        /\ options.template_filename.some =>
               page.page_content \in PairedSubstitutions(RenderedTemplate)
        /\ \A m \in 0..8 : \A n \in (m + 1)..9 :
               StrLess(InputToken(m), InputToken(n))

\* C3 witness: {input1} stands before {input0} in the filename and {input0} is in the
\* template too; the second value went to {input1}, the first to both {input0}
C3_Witness ==
    /\ CreateReturned
    /\ options.filename = TokInput1 \o TokInput0
    /\ options.user_input = Some(<< <<"u">>, <<"v", " ", "w">> >>)
    /\ page.path = <<"/", "b", "/", "p", "_", "q", "/", "v", "_", "w", "u", ".", "m", "d">>
    /\ \E d \in {<<"0", "1">>, <<"0", "2">>} :
           page.page_content = <<"u", " ", "s", " ", "t">> \o d

\* s is an input token: {input, digits, }
IsInputToken(s) ==
    /\ Len(s) >= 7
    /\ SubSeq(s, 1, 6) = <<"{", "i", "n", "p", "u", "t">>
    /\ s[Len(s)] = "}"
    /\ \A k \in 7..(Len(s) - 1) : s[k] \in Digits

\* the substrings of s that are input tokens
TokenSubstrings(s) ==
    {t \in {SubSeq(s, i, j) : i \in 1..Len(s), j \in 1..Len(s)} : IsInputToken(t)}

\* C4: token collection. What _get_input_tokens returns holds exactly the substrings
\* of the raw destination path and of the rendered template that are input tokens,
\* each once, in strictly ascending str order.
C4_TokenCollection ==
    pc = "verify_input_tokens" =>
        /\ ToSet(all_input_tokens)
               = TokenSubstrings(RawPath) \cup TokenSubstrings(RenderedTemplate)
        /\ \A i \in 1..(Len(all_input_tokens) - 1) :
               StrLess(all_input_tokens[i], all_input_tokens[i + 1])

\* C4 witness: the only token stands in the template, once there and not in the path
C4_Witness ==
    /\ pc = "verify_input_tokens"
    /\ all_input_tokens = <<TokInput0>>
    /\ TokenSubstrings(RawPath) = {}

\* the base path, after expanduser(), is not on the filesystem
BasePathMissing == ~Exists(files, ExpandUser(Path(options.base_path)))

\* C5: the base-path check comes first. With a missing base path every create_page
\* call ends at _check_base_path_exists with BasePathDoesNotExistError("Tembo base
\* path of <base_path> does not exist."), whatever the other options: no template is
\* loaded, no token collected, no page made.
C5_BasePathCheckedFirst ==
    (creates > 0 /\ BasePathMissing) =>
        /\ pc = "idle"
        /\ result = BasePathDoesNotExistError(
                        FString("Tembo base path of {base_path} does not exist.",
                                options.base_path))
        /\ calls = <<"_check_base_path_exists">>
        /\ all_input_tokens = <<>>
        /\ page = NoResult

\* C5 witness: the base path is missing, and so is the template, the extension is
\* empty and two values are given for no token
C5_Witness ==
    /\ CreateEnded
    /\ BasePathMissing
    /\ IsRaised(result)
    /\ options.template_filename = Some(<<"m">>)
    /\ options.extension = <<>>
    /\ options.filename = <<"n">>
    /\ options.user_input = Some(<< <<"u">>, <<"u">> >>)

\* create_page has got as far as loading the template
TemplateLoadReached ==
    \E i \in 1..Len(calls) : calls[i] = "_load_template"

\* the resolved template directory as a str: template_path if given, otherwise
\* <base_path>/.templates
ResolvedTemplateDir ==
    IF options.template_path.some
    THEN PathStr(ExpandUser(Path(options.template_path.val)))
    ELSE PathStr(ExpandUser(Path(options.base_path)))
             \o <<"/", ".", "t", "e", "m", "p", "l", "a", "t", "e", "s">>

\* <resolved directory>/<template_filename>
ResolvedTemplateFile == ResolvedTemplateDir \o <<"/">> \o options.template_filename.val

\* the configured template file is not in the resolved directory
TemplateAbsent ==
    ~(ResolvedTemplateFile \in DOMAIN files /\ files[ResolvedTemplateFile].kind = "file")

\* C6: template-missing. Once create_page loads the template: with a template_filename
\* configured and no such file in the resolved directory (template_path if given,
\* otherwise <base_path>/.templates) the call has failed with TemplateFileNotFoundError
\* whose message names <resolved directory>/<template_filename>; with none configured
\* no TemplateFileNotFoundError is raised and the returned content is the empty str.
C6_TemplateMissing ==
    TemplateLoadReached =>
        IF options.template_filename.some
        THEN TemplateAbsent =>
                 /\ pc = "idle"
                 /\ result = TemplateFileNotFoundError(
                                 FString("Template file {_template_file} does not exist.",
                                         ResolvedTemplateFile))
        ELSE /\ ~(IsRaised(result) /\ result.exc = "TemplateFileNotFoundError")
             /\ CreateReturned => page.page_content = <<>>

\* C6 witness: template a is configured with template_path /t and base path ~, where
\* it exists, and template m, which /t does not hold, has been reported missing
C6_Witness ==
    /\ CreateEnded
    /\ options.template_path = Some(<<"/", "t">>)
    /\ options.template_filename = Some(<<"m">>)
    /\ options.base_path = <<"~">>
    /\ IsRaised(result)
    /\ result.exc = "TemplateFileNotFoundError"
    /\ result.message.arg = <<"/", "t", "/", "m">>

\* the configured name holds no brace
PlainName == \A k \in 1..Len(options.name) : options.name[k] \notin {"{", "}"}

RECURSIVE ExpandFrom(_, _, _)
ExpandFrom(s, i, clockOf) ==
    IF i > Len(s) THEN <<>>
    ELSE IF MatchInput(s, i) > 0
         THEN PairedValue(SubSeq(s, i, i + MatchInput(s, i) - 1))
                  \o ExpandFrom(s, i + MatchInput(s, i), clockOf)
    ELSE IF MatchName(s, i) > 0
         THEN options.name \o ExpandFrom(s, i + MatchName(s, i), clockOf)
    ELSE IF MatchDate(s, i) > 0
         THEN LET token == SubSeq(s, i, i + MatchDate(s, i) - 1)
              IN  StrFTime(SubSeq(token, 4, Len(token) - 1), clockOf[token])
                      \o ExpandFrom(s, i + MatchDate(s, i), clockOf)
    ELSE <<s[i]>> \o ExpandFrom(s, i + 1, clockOf)

\* what s can become when, in one pass, every input token is replaced by its paired
\* value, every {name} by the name and every date token by its format applied to
\* some clock reading
Expansions(s) ==
    {ExpandFrom(s, 1, clockOf) :
        clockOf \in [ToSet(FindAll("date", s)) -> 0..MaxClock]}

\* how many times create_page has entered _substitute_tokens
SubstituteCalls == Cardinality({i \in 1..Len(calls) : calls[i] = "_substitute_tokens"})

\* C7: create_page substitutes the input, name and date tokens of the destination
\* path whether or not a template is configured; it substitutes the content only
\* when template_filename is configured, and without a template the Page content is
\* the empty str.
C7_PathAlwaysSubstituted ==
    (CreateReturned /\ PlainValues /\ PlainName) =>
        /\ page.path \in {PathStr(Path(t)) : t \in Expansions(RawPath)}
        /\ IF options.template_filename.some
           THEN /\ page.page_content \in Expansions(RenderedTemplate)
                /\ SubstituteCalls = 2
           ELSE /\ page.page_content = <<>>
                /\ SubstituteCalls = 1

\* C7 witness: no template is configured, the filename holds a name and a date token,
\* and the returned path holds the name and the day of the month in their place
C7_Witness ==
    /\ CreateReturned
    /\ ~options.template_filename.some
    /\ options.filename = TokName \o <<" ">> \o TokDate
    /\ page.page_content = <<>>
    /\ \E d \in {<<"0", "1">>, <<"0", "2">>} :
           page.path = <<"/", "b", "/", "p", "_", "q", "/", "s", " ", "t", "_">> \o d
                           \o <<".", "m", "d">>

\* the step taken is a step of create_page
CreatePageStep ==
    \/ creates' # creates
    \/ pc \in {"get_input_tokens", "verify_input_tokens", "convert_path", "load_template"}

\* the step taken puts a file where there was nothing
FileAppears ==
    \E p \in DOMAIN files' : p \notin DOMAIN files /\ files'[p].kind = "file"

\* C8: create_page never changes the filesystem, whether it returns a Page or fails:
\* no step of it creates, modifies or removes a file or directory. A file appears
\* only in the writing step of save_to_disk, at the path of a Page that create_page
\* has returned, and that save_to_disk returns Success.
C8_CreatePageLeavesFilesAlone ==
    [][/\ CreatePageStep => files' = files
       /\ FileAppears =>
              /\ pc = "write"
              /\ page # NoResult
              /\ DOMAIN files' = DOMAIN files \cup {page.path}
              /\ saved' = Success(page.path)]_vars

\* C8 witness: a page was saved, create_page was called again and has ended, and the
\* filesystem it ended with is the one it was called on
C8_Witness ==
    /\ CreateEnded
    /\ saves > 0
    /\ creates = 2
    /\ page.path \in DOMAIN files
    /\ files = files_at_call

\* no file stands where a directory of the page's path would be
LineageFree ==
    \A a \in Lineage(Parent(Path(page.path))) :
        PathStr(a) \in DOMAIN files_at_call => files_at_call[PathStr(a)] = Dir

\* what C9 says of a save_to_disk call that has ended
SavedAsNew ==
    /\ saved = Success(page.path)
    /\ page.path \in DOMAIN files
    /\ files[page.path] = File(page.page_content)
    /\ \A a \in Lineage(Parent(Path(page.path))) :
           PathStr(a) \in DOMAIN files /\ files[PathStr(a)] = Dir
    /\ \A q \in DOMAIN files_at_call : q \in DOMAIN files /\ files[q] = files_at_call[q]

\* C9 as claimed: when nothing occupies the page's path, save_to_disk creates the
\* missing parent directories and the file with exactly page_content, and returns
\* Success(str(path)).
C9_SaveSucceedsWhenFree ==
    (SaveEnded /\ ~OccupiedAtCall) => SavedAsNew

\* C9 amended: the same, when moreover no file stands where a directory of the
\* page's path would be.
C9_SaveSucceedsWhenFreeAndReachable ==
    (SaveEnded /\ ~OccupiedAtCall /\ LineageFree) => SavedAsNew

\* C9 witness: a page with content was saved into a directory that did not exist
C9_Witness ==
    /\ SaveEnded
    /\ ~OccupiedAtCall
    /\ PathStr(Parent(Path(page.path))) \notin DOMAIN files_at_call
    /\ page.page_content # <<>>
    /\ saved = Success(page.path)

\* the str holds no input, name or date token
NoPlaceholder(s) ==
    /\ FindAll("input", s) = <<>>
    /\ FindAll("name", s) = <<>>
    /\ FindAll("date", s) = <<>>

\* a scope without placeholders in its path pattern and its rendered template, without
\* user_input, on an existing base path and, if one is configured, an existing template
PlainScope ==
    /\ options.user_input = None
    /\ NoPlaceholder(options.base_path)
    /\ NoPlaceholder(options.page_path)
    /\ NoPlaceholder(options.filename)
    /\ NoPlaceholder(options.extension)
    /\ ~BasePathMissing
    /\ options.template_filename.some => ~TemplateAbsent
    /\ NoPlaceholder(RenderedTemplate)

\* C10: for a scope without placeholders and without user_input, on an existing base
\* path and with an existing template if one is configured, create_page returns a
\* Page whose path is the raw destination path and whose content is the rendered
\* template text unchanged.
C10_PlainScopeSucceeds ==
    (CreateEnded /\ PlainScope) =>
        /\ CreateReturned
        /\ page.path = PathStr(ExpandUser(Path(RawPath)))
        /\ page.page_content = RenderedTemplate

\* the str with an underscore at every place where s has a space
Underscored(s) == [i \in 1..Len(s) |-> IF s[i] = " " THEN "_" ELSE s[i]]

\* how many spaces the str has
SpaceCount(s) == Cardinality({i \in 1..Len(s) : s[i] = " "})

\* <base_path>/<page_path>/<filename>.<extension> with the spaces of page_path and
\* filename as underscores, tokens not yet substituted
UnderscoredPath ==
    PathStr(ExpandUser(Path(options.base_path)))
        \o <<"/">> \o Underscored(options.page_path)
        \o <<"/">> \o Underscored(options.filename)
        \o (IF options.extension[1] = "." THEN <<>> ELSE <<".">>) \o options.extension

\* C11: every space of page_path and of filename is an underscore in the Page path
\* (the path is the underscored pattern with its tokens substituted), while the
\* spaces of the rendered template text are all kept in the Page content.
C11_SpacesToUnderscoresInPathOnly ==
    (CreateReturned /\ PlainValues /\ PlainName) =>
        /\ page.path \in {PathStr(Path(t)) : t \in Expansions(UnderscoredPath)}
        /\ options.template_filename.some =>
               /\ page.page_content \in Expansions(RenderedTemplate)
               /\ SpaceCount(page.page_content) >= SpaceCount(RenderedTemplate)

\* C11 witness: a Page made from a page_path and a filename with a space each and a
\* template with a space, which the content keeps
C11_Witness ==
    /\ CreateReturned
    /\ SpaceCount(options.page_path) > 0
    /\ SpaceCount(options.filename) > 0
    /\ options.template_path.some
    /\ options.template_filename.some
    /\ page.page_content = <<"c", " ", "d">>

\* the extension without its leading dot, if it has one
BareExtension ==
    IF options.extension[1] = "." THEN Tail(options.extension) ELSE options.extension

\* the options with another extension, all else equal
WithExtension(e) == [options EXCEPT !.extension = e]

\* s.endswith(tail)
EndsWith(s, tail) ==
    Len(tail) <= Len(s) /\ SubSeq(s, Len(s) - Len(tail) + 1, Len(s)) = tail

\* C12: extension normalization. For an extension e without a leading dot,
\* create_page with e and create_page with "." + e, on the same options otherwise, the
\* same filesystem and the same clock readings, return the same Page, the one the run
\* returned; its path ends with "." + e and not with ".." + e; and only one leading
\* dot is stripped: with ".." + e the path ends with ".." + e.
C12_ExtensionNormalization ==
    (CreateReturned /\ options.extension # <<>> /\ BareExtension[1] # ".") =>
        /\ page = CreatePage(files_at_call, WithExtension(BareExtension), clock_reads)
        /\ page = CreatePage(files_at_call, WithExtension(<<".">> \o BareExtension),
                             clock_reads)
        /\ EndsWith(CreatePage(files_at_call,
                               WithExtension(<<".", ".">> \o BareExtension),
                               clock_reads).path,
                    <<".", ".">> \o BareExtension)
        /\ EndsWith(page.path, <<".">> \o BareExtension)
        /\ ~EndsWith(page.path, <<".", ".">> \o BareExtension)

\* C12 witness: a Page made with the extension ".md", its path ending with "n.md"
C12_Witness ==
    /\ CreateReturned
    /\ options.extension = <<".", "m", "d">>
    /\ EndsWith(page.path, <<"/", "n", ".", "m", "d">>)

RECURSIVE UnnestedFrom(_, _, _)
UnnestedFrom(s, i, open) ==
    IF i > Len(s) THEN TRUE
    ELSE IF s[i] = "{" THEN ~open /\ UnnestedFrom(s, i + 1, TRUE)
    ELSE IF s[i] = "}" THEN UnnestedFrom(s, i + 1, FALSE)
    ELSE UnnestedFrom(s, i + 1, open)

\* no brace of the str opens inside another pair of braces
Unnested(s) == UnnestedFrom(s, 1, FALSE)

\* the Page is the given path and template with each recognised token replaced (an
\* input token by its value, a name token by the name as configured, a date token by
\* the formatted date) and every other character kept in its place
OnlyTokensReplaced ==
    /\ page.path \in {PathStr(Path(t)) : t \in Expansions(RawPath)}
    /\ options.template_filename.some =>
           page.page_content \in Expansions(RenderedTemplate)

Exited == pc = "exited"

\* C14: dry run. When new is run with --dry-run and create_page returns a Page, the
\* command relays "<path> will be created" and nothing else, exits with code 0, never
\* calls save_to_disk, and leaves the filesystem as it was.
C14_DryRunSavesNothing ==
    (Exited /\ args.dry_run /\ page # NoResult) =>
        /\ echoed = <<FString("{scoped_page.path} will be created", page.path)>>
        /\ exit_code = 0
        /\ saves = 0
        /\ saved = NoResult
        /\ last_call = "create_page"
        /\ files = files_at_call

\* C14 witness: a dry run has exited with 0 and the page's path is still free
C14_Witness ==
    /\ Exited
    /\ args.dry_run
    /\ page # NoResult
    /\ exit_code = 0
    /\ page.path \notin DOMAIN files

\* the requested scope name is the name of a configured scope
NameConfigured ==
    \E i \in 1..Len(CONFIG.scopes) :
        /\ "name" \in DOMAIN CONFIG.scopes[i]
        /\ CONFIG.scopes[i].name = args.scope

\* the scope lookup of new has raised
LookupRaised ==
    /\ IsRaised(raised)
    /\ raised.exc \in {"ScopeNotFound", "EmptyConfigYML", "MissingConfigYML", "KeyError"}

\* the scope lookup of new has raised this exception
LookupRaisedOnly(kind) == IsRaised(raised) /\ raised.exc = kind

\* C15: the scope lookup of new raises nothing if the requested name is among the
\* configured scopes; otherwise exactly ScopeNotFound if a scope is configured,
\* EmptyConfigYML if none is and the config path exists, MissingConfigYML if none is
\* and the config path does not exist.
C15_ScopeLookupFailures ==
    (pc # "_new_verify_name_exists") =>
        IF NameConfigured THEN ~LookupRaised
        ELSE IF Len(CONFIG.scopes) > 0 THEN LookupRaisedOnly("ScopeNotFound")
        ELSE IF Exists(files, Path(CONFIG.config_path))
        THEN LookupRaisedOnly("EmptyConfigYML")
        ELSE LookupRaisedOnly("MissingConfigYML")

\* the failures raised before persistence
FailuresBeforeSave ==
    {"ScopeNotFound", "EmptyConfigYML", "MissingConfigYML", "MandatoryKeyNotFound",
     "BasePathDoesNotExistError", "TemplateFileNotFoundError", "MismatchedTokenError"}

\* C16: exit codes of new. A failure raised before persistence (scope not found,
\* empty or missing config, mandatory key missing, base path missing, template
\* missing, mismatched token count) ends the command with exit code 1, its message
\* relayed and save_to_disk not called; a successful save, a dry run and an
\* already-exists failure of save_to_disk end it with exit code 0.
C16_ExitCodes ==
    Exited =>
        /\ (IsRaised(raised) /\ raised.exc \in FailuresBeforeSave) =>
               /\ exit_code = 1
               /\ saves = 0
               /\ saved = NoResult
               /\ Len(echoed) = 1
        /\ (saves = 1 /\ ~IsRaised(saved)) =>
               /\ exit_code = 0
               /\ saved = Success(page.path)
        /\ (args.dry_run /\ page # NoResult) => exit_code = 0
        /\ (saves = 1 /\ IsRaised(saved) /\ saved.exc = "ScopedPageAlreadyExists") =>
               exit_code = 0

\* C16 witness: a token-count mismatch ended the command with 1 before any save
C16_Witness ==
    /\ Exited
    /\ IsRaised(raised)
    /\ raised.exc = "MismatchedTokenError"
    /\ exit_code = 1
    /\ saves = 0

\* the scope that new was asked for has an example
ScopeHasExample ==
    \A i \in 1..Len(CONFIG.scopes) :
        CONFIG.scopes[i].name = args.scope => "example" \in DOMAIN CONFIG.scopes[i]

\* C17: new --example, once the scope lookup and the extraction of the scope's fields
\* have succeeded, relays the scope's example, or "No example in config.yml" if it
\* has none, and exits with code 0 before create_page: no base-path check, no token
\* validation, no file written, also when the base path does not exist.
C17_ExampleBeforeCreatePage ==
    (args.example /\ config_scope # NoResult) =>
        /\ pc \in {"_new_show_example", "exited"}
        /\ creates = 0
        /\ saves = 0
        /\ result = NoResult
        /\ page = NoResult
        /\ files = files_at_call
        /\ Exited =>
               /\ exit_code = 0
               /\ echoed = <<IF ScopeHasExample
                             THEN FString("Example for {name}: {example}",
                                          <<args.scope, config_scope.example.val>>)
                             ELSE FString("No example in config.yml", <<>>)>>

\* C17 witness: the example was asked for a scope without one, on a base path that
\* does not exist, and the command has exited with 0
C17_Witness ==
    /\ Exited
    /\ args.example
    /\ config_scope # NoResult
    /\ ~ScopeHasExample
    /\ ~Exists(files, Path(CONFIG.base_path))
    /\ exit_code = 0

\* C18: create_page is deterministic. What a call returns or raises is the value of
\* one function of the options, the filesystem at the call and the clock readings:
\* the same on a fresh creator and on one that was used before, whatever was saved in
\* between. The token list it pairs the input with does not depend on the order in
\* which the set of tokens is iterated: it is the one strictly ascending list of the
\* distinct tokens, any two of which are ordered one way only.
C18_CreatePageDeterministic ==
    CreateEnded =>
        /\ result = CreatePage(files_at_call, options, clock_reads)
        /\ ~IsRaised(result) => page = result
        /\ (\E i \in 1..Len(calls) : calls[i] = "_verify_input_tokens") =>
               /\ ToSet(all_input_tokens) = FoundTokens
               /\ \A i \in 1..(Len(all_input_tokens) - 1) :
                      StrLess(all_input_tokens[i], all_input_tokens[i + 1])
               /\ \A a \in FoundTokens : \A b \in FoundTokens :
                      a # b => (StrLess(a, b) /\ ~StrLess(b, a))
                                   \/ (StrLess(b, a) /\ ~StrLess(a, b))

\* C18 witness: the second call on the same creator, after a page was saved, returned
\* a Page made from two input tokens and a clock reading
C18_Witness ==
    /\ CreateReturned
    /\ creates = 2
    /\ saves > 0
    /\ Len(all_input_tokens) = 2
    /\ Len(clock_reads) > 0

\* neither the path nor the content of the Page holds an input, name or date token
FullySubstituted ==
    /\ NoPlaceholder(page.path)
    /\ options.template_filename.some => NoPlaceholder(page.page_content)

\* C19 as claimed: a Page returned by create_page is fully substituted, for every
\* user_input and name accepted by validation: no input token, no {name} and no date
\* token is left in its path, nor in its content when a template is configured.
C19_FullySubstituted ==
    CreateReturned => FullySubstituted

\* C19 amended: the same, for a name and input values without braces and a path
\* pattern and template whose braces are not nested.
C19_FullySubstitutedWithoutBraces ==
    (CreateReturned /\ PlainValues /\ PlainName
         /\ Unnested(RawPath) /\ Unnested(RenderedTemplate)) =>
        FullySubstituted

\* C19 witness: a Page made from a filename of a name, a date and a name token and
\* from the template of an input, a name and a date token, with nothing left of them
C19_Witness ==
    /\ CreateReturned
    /\ PlainValues
    /\ PlainName
    /\ options.filename = TokName \o TokDate \o TokName
    /\ options.template_filename.some
    /\ Len(options.user_input.val) = 1
    /\ FullySubstituted

\* the path _get_input_tokens scans, or the exception building it raises
InputTokenPath ==
    WithSuffix(ExpandUser(PathJoin(PathJoin(Path(options.base_path),
                                            Path(options.page_path)),
                                   Path(options.filename))),
               <<".">> \o options.extension)

\* a template is configured and its file is absent when create_page is called
ConfiguredTemplateAbsent ==
    /\ options.template_filename.some
    /\ TemplateAbsent

\* the input tokens of the path are not as many as the values of user_input
CountMismatch ==
    /\ ~IsRaised(InputTokenPath)
    /\ IsRaised(VerifyInputTokens(Sorted(ToSet(FindAll("input", PathStr(InputTokenPath)))),
                                  options.user_input))

\* C20: error precedence between template and tokens. When a configured template
\* file is absent and the number of input tokens differs from the number of values
\* supplied, a create_page call that passes the base path check fails with the
\* template-missing error, not with the token-count-mismatch error, and
\* _verify_input_tokens is never entered.
C20_TemplateMissingBeforeMismatch ==
    (CreateEnded /\ ConfiguredTemplateAbsent /\ CountMismatch
         /\ ~IsRaised(CheckBasePathExists(files_at_call, options))) =>
        /\ result = LoadTemplate(files_at_call, options)
        /\ result.exc = "TemplateFileNotFoundError"
        /\ \A i \in 1..Len(calls) : calls[i] # "_verify_input_tokens"

\* C20 witness: a call with an absent template, two tokens in the filename and one
\* value supplied has ended with the template-missing error
C20_Witness ==
    /\ CreateEnded
    /\ ConfiguredTemplateAbsent
    /\ CountMismatch
    /\ options.filename = TokInput1 \o TokInput0
    /\ options.user_input.some
    /\ Len(options.user_input.val) = 1
    /\ IsRaised(result)
    /\ result.exc = "TemplateFileNotFoundError"

\* a template is configured, its file is there and jinja2 cannot compile it
TemplateBroken ==
    /\ options.template_filename.some
    /\ ~TemplateAbsent
    /\ RenderFails(files[ResolvedTemplateFile].content)

\* C21 as claimed: token-count validation comes before the renderer's errors other
\* than file-not-found. When the path alone has a token-count mismatch and the
\* configured template exists but the renderer fails on it, create_page ends with
\* the token-count-mismatch error, not with the renderer's error.
C21_MismatchBeforeRendererError ==
    (CreateEnded /\ TemplateBroken /\ CountMismatch
         /\ ~IsRaised(CheckBasePathExists(files_at_call, options))) =>
        /\ IsRaised(result)
        /\ result.exc = "MismatchedTokenError"

\* validation has passed in the running create_page call, whose _substitute_tokens
\* calls come next, or the last call has made one
SubstitutionRuns ==
    /\ last_call = "create_page"
    /\ \/ pc \in {"convert_path", "load_template"}
       \/ \E i \in 1..Len(calls) : calls[i] = "_substitute_tokens"

\* C22: whenever input-token substitution runs inside create_page, either user_input
\* is absent and the collected token list is empty, or user_input has as many values
\* as tokens were collected: the zip of the two stops at the end of both, no token
\* and no value is left unpaired.
C22_ZipNeverTruncates ==
    SubstitutionRuns =>
        \/ ~options.user_input.some /\ all_input_tokens = <<>>
        \/ /\ options.user_input.some
           /\ Len(options.user_input.val) = Len(all_input_tokens)
           /\ ZipLen(options.user_input.val, all_input_tokens) = Len(all_input_tokens)
           /\ ZipLen(options.user_input.val, all_input_tokens)
                  = Len(options.user_input.val)

\* C22 witness: the path has been substituted with two values for two tokens
C22_Witness ==
    /\ pc = "load_template"
    /\ calls[Len(calls)] = "_substitute_tokens"
    /\ options.user_input.some
    /\ Len(options.user_input.val) = 2
    /\ Len(all_input_tokens) = 2

\* C23: save_to_disk's existence check and its write are two steps, with no atomic
\* create-exclusive. When another actor has made a file at the path after the check
\* passed and before the write, save_to_disk does not fail with already-exists: it
\* returns Success and the file holds page_content, not the other actor's content;
\* and when that actor was a second save_to_disk call, both calls return Success.
C23_CheckThenWriteRace ==
    (SaveEnded /\ intruded # {}) =>
        /\ saved = Success(page.path)
        /\ IsFile(files, Path(page.path))
        /\ files[page.path].content = page.page_content
        /\ files[page.path].content # OtherContent
        /\ "save" \in intruded => other_saved = Success(page.path)

\* C23 witness: within one window between check and write another actor has made the
\* file and a second save_to_disk call has written it, and both calls returned Success
C23_Witness ==
    /\ SaveEnded
    /\ intruded = {"actor", "save"}
    /\ saved = Success(page.path)
    /\ other_saved = Success(page.path)
    /\ files[page.path].content = page.page_content

\* v occurs in s
Occurs(v, s) == \E i \in 1..Len(s) : StartsWithAt(s, i, v)

\* v holds the text of an input, name or date token
HasTokenText(v) ==
    FindAll("input", v) \o FindAll("name", v) \o FindAll("date", v) # <<>>

\* C24 as claimed: user input values are inserted as they are, spaces aside, and are
\* never treated as placeholders. In a Page create_page returns, a value that holds
\* the text of an input, name or date token stands as that text in the path, and in
\* the content, wherever its token was written.
C24_InputValuesVerbatim ==
    (CreateReturned /\ options.user_input.some) =>
        \A t \in FoundTokens :
            HasTokenText(PairedValue(t)) =>
                /\ Occurs(t, RawPath) => Occurs(PairedValue(t), page.path)
                /\ (options.template_filename.some /\ Occurs(t, RenderedTemplate)) =>
                       Occurs(PairedValue(t), page.page_content)

\* the digits of an input token
TokenDigits(t) == SubSeq(t, 7, Len(t) - 1)

\* a is the beginning of b and shorter
ProperPrefix(a, b) == Len(a) < Len(b) /\ SubSeq(b, 1, Len(a)) = a

\* the tokens of the running or last create_page call have been collected
TokensCollected ==
    last_call = "create_page" /\ \E i \in 1..Len(calls) : calls[i] = "_verify_input_tokens"

\* the path of the Page for the filename {input0}{input1}...{input10} and the eleven
\* values a b c d e h i l m n p: {input10} has the second value, {input1} the third
ElevenPath ==
    <<"/", "b", "/", "p", "_", "q", "/",
      "a", "c", "d", "e", "h", "i", "l", "m", "n", "p", "b", ".", "m", "d">>

\* C25: the token sort compares the token text with its closing brace, which comes
\* after every digit. A token whose digits are the beginning of another token's
\* digits comes after it in the collected list: {input10} before {input1}, and
\* {input}, without digits, after every token with digits. With the tokens {input0}
\* to {input10} and eleven values, {input10} is second and takes the second value,
\* {input1} is third and takes the third.
C25_TokenSortOrder ==
    TokensCollected =>
        /\ \A i \in 1..Len(all_input_tokens) : \A j \in 1..Len(all_input_tokens) :
               ProperPrefix(TokenDigits(all_input_tokens[i]),
                            TokenDigits(all_input_tokens[j])) => j < i
        /\ (options.filename = ElevenTokens) =>
               /\ Len(all_input_tokens) = 11
               /\ all_input_tokens[1] = TokInput0
               /\ all_input_tokens[2] = TokInput10
               /\ all_input_tokens[3] = TokInput1
               /\ (CreateReturned /\ options.user_input = Some(ElevenInputs)) =>
                      page.path = ElevenPath
        /\ (options.filename = TokInput \o TokInput0) =>
               all_input_tokens = <<TokInput0, TokInput>>

\* C25 witness: the Page of the eleven tokens and eleven values has been returned
C25_Witness ==
    /\ CreateReturned
    /\ options.filename = ElevenTokens
    /\ options.user_input = Some(ElevenInputs)
    /\ all_input_tokens[2] = TokInput10
    /\ page.path = ElevenPath

\* C26 as claimed: for every options value whose base_path exists and whose template
\* renderer returns text or reports not-found, create_page ends in a returned Page,
\* in TemplateFileNotFoundError or in MismatchedTokenError; an empty extension does
\* not make it end in an untyped error.
C26_TypedOutcomes ==
    (CreateEnded /\ ~IsRaised(CheckBasePathExists(files_at_call, options))
         /\ ~TemplateBroken) =>
        \/ CreateReturned
        \/ /\ IsRaised(result)
           /\ result.exc \in {"TemplateFileNotFoundError", "MismatchedTokenError"}

\* the last component of the path p, a str
FileName(p) == Path(p).parts[Len(Path(p).parts)]

\* the configured filename with its spaces turned to underscores
UnderscoredFilename == Replace(options.filename, <<" ">>, <<"_">>)

\* the extension without its leading dot
NormalizedExtension ==
    IF options.extension # <<>> /\ options.extension[1] = "."
    THEN Tail(options.extension) ELSE options.extension

\* the distinct input tokens written in page_path, the filename and the template
WrittenTokens ==
    ToSet(FindAll("input", options.page_path) \o FindAll("input", options.filename)
              \o FindAll("input", RenderedTemplate))

\* C27 as claimed: no part of the configured filename is dropped. Every input token
\* written in the filename is counted by token collection, and the file name of a
\* returned Page is the whole filename, spaces turned to underscores and tokens
\* substituted, followed by '.' and the normalized extension, also when the filename
\* holds a '.'.
C27_WholeFilenameKept ==
    /\ TokensCollected =>
           \A t \in ToSet(FindAll("input", options.filename)) :
               t \in ToSet(all_input_tokens)
    /\ CreateReturned =>
           \E reads \in ClockReads(0, NowCalls(UnderscoredFilename, options,
                                                Sorted(WrittenTokens))) :
               FileName(page.path)
                   = SubstituteTokens(UnderscoredFilename, options,
                                      Sorted(WrittenTokens), reads)
                         \o <<".">> \o NormalizedExtension

\* token validation has passed in the running or last create_page call
ValidationPassed ==
    /\ last_call = "create_page"
    /\ \E i \in 1..Len(calls) : calls[i] = "_convert_base_path_to_path"

\* C28 as claimed: within one create_page call the template is not read a second
\* time. A template file rewritten or removed between token collection and content
\* substitution yields neither a template-missing failure after validation has
\* passed nor, for values without braces, a Page whose content holds an input token.
C28_TemplateReadOnce ==
    /\ (CreateEnded /\ ValidationPassed /\ IsRaised(result)) =>
           result.exc # "TemplateFileNotFoundError"
    /\ (CreateReturned /\ PlainValues /\ options.template_filename.some) =>
           FindAll("input", page.page_content) = <<>>

RECURSIVE DatesFrom(_, _, _, _)
\* s from index i on, every date token replaced by its format applied to the clock
\* reading taken for the first token of the same text in found
DatesFrom(s, i, found, reads) ==
    LET k == SearchFrom("date", s, i)
    IN  IF k = 0 THEN SubSeq(s, i, Len(s))
        ELSE LET n == MatchLen("date", s, k)
                 t == SubSeq(s, k, k + n - 1)
                 first == CHOOSE j \in 1..Len(found) :
                              found[j] = t /\ \A m \in 1..(j - 1) : found[m] # t
             IN  SubSeq(s, i, k - 1)
                     \o StrFTime(SubSeq(t, 4, Len(t) - 1), reads[first])
                     \o DatesFrom(s, k + n, found, reads)

\* the raw path and the rendered template as date substitution receives them
PathBeforeDates == BeforeDateTokens(RawPath, options, all_input_tokens)
ContentBeforeDates == BeforeDateTokens(RenderedTemplate, options, all_input_tokens)

\* C29: within one call of date-token substitution all occurrences of the same
\* date-token text are replaced by one formatted value, from the clock reading taken
\* when the first of them is processed, even if the clock advances during the call;
\* tokens of different text, and the path and the content, have readings of their own.
C29_SameDateTokenSameValue ==
    CreateReturned =>
        LET found == FindAll("date", PathBeforeDates)
            n == Len(found)
        IN  /\ n <= Len(clock_reads)
            /\ page.path = DatesFrom(PathBeforeDates, 1, found, SubSeq(clock_reads, 1, n))
            /\ options.template_filename.some =>
                   LET tfound == FindAll("date", ContentBeforeDates)
                   IN  /\ Len(clock_reads) = n + Len(tfound)
                       /\ page.page_content
                              = DatesFrom(ContentBeforeDates, 1, tfound,
                                          SubSeq(clock_reads, n + 1, n + Len(tfound)))

\* C29 witness: the clock advanced after the first reading, and both occurrences of
\* {d:%d} in the filename have the first day, the token between them the second
C29_Witness ==
    /\ CreateReturned
    /\ options.filename = TokDate \o TokDateDash \o TokDate
    /\ Len(clock_reads) >= 3
    /\ clock_reads[1] = 0
    /\ clock_reads[2] = 1
    /\ clock_reads[3] = 1
    /\ page.path = <<"/", "b", "/", "p", "_", "q", "/",
                     "0", "1", "-", "0", "2", "0", "1", ".", "m", "d">>

\* s holds no space character
NoSpace(s) == \A i \in 1..Len(s) : s[i] # " "

====
